---- MODULE Spec2Model ----
(***************************************************************************)
(* Model of the gripmock/stuber matching engine: the hashed two-level      *)
(* storage index (lefts / items / itemsByID), the searcher with its usage  *)
(* set (stubUsed), the Budgerigar facade, and the BidiResult handle of     *)
(* bidirectional streaming.                                                *)
(*                                                                         *)
(* uuid.UUID values are modelled by small naturals (0 is uuid.Nil); the    *)
(* lexicographic order of UUID strings is the order of those naturals.     *)
(* A nil pointer is the empty sequence <<>>, a non-nil pointer to x is     *)
(* <<x>>.  map[string]any documents are functions from a finite set of    *)
(* keys to string values.                                                  *)
(***************************************************************************)
EXTENDS Integers, Sequences, FiniteSets, TLC

VARIABLES
    lefts,      \* storage.lefts      : set of hashed service names
    items,      \* storage.items      : pos -> (uuid -> Value)
    itemsByID,  \* storage.itemsByID  : uuid -> Value
    stubUsed,   \* searcher.stubUsed  : set of uuid
    toggles,    \* Budgerigar.toggles : set of feature flags
    upserted,   \* history: ids upserted and not since deleted or cleared
    writes,     \* history: number of PutMany/UpdateMany/DeleteByID/Clear calls so far
    usedAtClear, \* history: the ids marked used when Clear was last called
    rd,         \* the FindBy call in progress (its locals, and its history)
    nx,         \* BidiResult handles shared by goroutines, their locks, the Next calls
    rc,         \* regexCache, the getRegex calls in progress (and their history)
    lk,         \* the mutexes and the lock operations each goroutine has still to do
    res,        \* the last facade call and what it returned
    bidi        \* the BidiResult handle in use (its fields, and its history)

vars == <<lefts, items, itemsByID, stubUsed, toggles, upserted, writes, usedAtClear,
          rd, nx, rc, lk, res, bidi>>

----------------------------------------------------------------------------
(* Bounds of the model *)

MaxId == 2          \* uuids 1..MaxId
MaxWrites == 3      \* writes (PutMany, UpdateMany, DeleteByID, Clear) in one behaviour
MaxCandidates == 2  \* stubs registered by the setup of the selection scenario
IntBits == 8        \* bits of Go's int in the model
MaxCache == 2       \* entries the regex cache holds (regexCacheSize, 1000 in the program)

(* Program constants *)

PriorityMultiplier == 10000

NilID == 0
Ids == 1 .. MaxId

----------------------------------------------------------------------------
(* Generic helpers for Go maps and slices *)

EmptyMap == [x \in {} |-> x]

MapPut(m, k, v) == [x \in (DOMAIN m) \cup {k} |-> IF x = k THEN v ELSE m[x]]

MapDel(m, k) == [x \in (DOMAIN m) \ {k} |-> m[x]]

Len0(m) == Cardinality(DOMAIN m)

Range(s) == {s[i] : i \in DOMAIN s}

\* every enumeration (without repetition) of a finite set, as sequences
Perms(S) ==
    {f \in [1 .. Cardinality(S) -> S] : \A i, j \in DOMAIN f : f[i] = f[j] => i = j}

----------------------------------------------------------------------------
(* Names.  xxh3.HashString is a fixed 64-bit function of the string; its    *)
(* value is kept as the pair <<high 32 bits, low 32 bits>>.  The hashes of  *)
(* "svc3487" and "svc84267" are b12d9c4854385b00 and 9a8d860654385b00: the  *)
(* two names differ in the high word and agree in the low word.             *)

StubServices == {"helloworld.Greeter", "Greeter"}
StubMethods == {"SayHello", "SayBye"}
QueryServices == StubServices \cup {"Missing"}
QueryMethods == StubMethods \cup {"sayHello"}

HashString(value) ==
    CASE value = "helloworld.Greeter" -> <<7, 101>>
      [] value = "Greeter"            -> <<3, 102>>
      [] value = "Missing"            -> <<9, 103>>
      [] value = "SayHello"           -> <<1, 104>>
      [] value = "SayBye"             -> <<4, 105>>
      [] value = "sayHello"           -> <<6, 106>>
      [] value = ""                   -> <<2, 107>>
      [] value = "svc3487"            -> <<10, 108>>
      [] value = "svc84267"           -> <<11, 108>>

\* func (s *storage) id(value string) uint32: the low 32 bits of the hash
id(value) == HashString(value)[2]

\* func (s *storage) pos(a, b uint32) uint64: a<<32 | b, kept as the pair
pos(a, b) == <<a, b>>

\* strings.LastIndex(left, ".") and left[dotIndex+1:]
HasDot(left) == left = "helloworld.Greeter"

truncatedLeft(left) == IF left = "helloworld.Greeter" THEN "Greeter" ELSE left

\* cases.Title(language.English, cases.NoLower).String(method)
titleCase(method) == IF method = "sayHello" THEN "SayHello" ELSE method

----------------------------------------------------------------------------
(* Stubs and queries *)

Keys == {"name", "id"}
Vals == {"a", "b"}

\* all map[string]any documents over the model's keys and values
Docs == UNION {[K -> Vals] : K \in SUBSET Keys}

NoInput == [IgnoreArrayOrder |-> FALSE, Equals |-> EmptyMap,
            Contains |-> EmptyMap, Matches |-> EmptyMap]

NoHeaders == [Equals |-> EmptyMap, Contains |-> EmptyMap, Matches |-> EmptyMap]

MkStub(i, service, method, priority, headers, input) ==
    [ID |-> i, Service |-> service, Method |-> method, Priority |-> priority,
     Headers |-> headers, Input |-> input, Stream |-> <<>>, ServerStream |-> FALSE]

\* Stub.Key / Left / Right / Score
Key(v) == v.ID
Left(v) == v.Service
Right(v) == v.Method
Score(v) == v.Priority

\* InputHeader.Len
HeaderLen(h) == Len0(h.Equals) + Len0(h.Matches) + Len0(h.Contains)

MkQuery(qid, service, method, headers, data, internal) ==
    [ID |-> qid, Service |-> service, Method |-> method, Headers |-> headers,
     Data |-> data, internal |-> internal]

\* Query.RequestInternal
RequestInternal(query) == query.internal

----------------------------------------------------------------------------
(* Deep comparator (github.com/gripmock/deeply), as section 4.1 of the      *)
(* specification describes it, over flat documents of strings.              *)

\* regexp match of a pattern against a string, for the model's patterns
RegexMatch(pattern, s) ==
    CASE pattern = "^[ab]$" -> s \in {"a", "b"}
      [] pattern = "^a$"    -> s = "a"
      [] OTHER              -> pattern = s

\* deeply.ContainsIgnoreArrayOrder: every key of expected is in actual and
\* its value is contained (scalars follow equality)
ContainsIgnoreArrayOrder(expected, actual) ==
    \A k \in DOMAIN expected : k \in DOMAIN actual /\ actual[k] = expected[k]

\* deeply.MatchesIgnoreArrayOrder: every leaf of expected is a regular
\* expression that the leaf of actual at the same key matches
MatchesIgnoreArrayOrder(expected, actual) ==
    \A k \in DOMAIN expected : k \in DOMAIN actual /\ RegexMatch(expected[k], actual[k])

\* deeply.RankMatch: the number of fields of expected that actual satisfies
RankMatch(expected, actual) ==
    Cardinality({k \in DOMAIN expected :
                    k \in DOMAIN actual /\ RegexMatch(expected[k], actual[k])})

----------------------------------------------------------------------------
(* matcher.go *)

\* ultraFastSpecializedEquals on two strings: e == a
ultraFastSpecializedEquals(expected, actual) == expected = actual

\* equals: true for an empty expected; otherwise every key of expected is in
\* actual with an equal value (documents hold no arrays, so orderIgnore has
\* nothing to reorder)
equals(expected, actual, orderIgnore) ==
    IF Len0(expected) = 0 THEN TRUE
    ELSE \A key \in DOMAIN expected :
            key \in DOMAIN actual
            /\ ultraFastSpecializedEquals(expected[key], actual[key])

contains(expected, actual, orderIgnore) ==
    IF Len0(expected) = 0 THEN TRUE ELSE ContainsIgnoreArrayOrder(expected, actual)

matches(expected, actual, orderIgnore) ==
    IF Len0(expected) = 0 THEN TRUE ELSE MatchesIgnoreArrayOrder(expected, actual)

matchHeaders(queryHeaders, stubHeaders) ==
    /\ equals(stubHeaders.Equals, queryHeaders, FALSE)
    /\ contains(stubHeaders.Contains, queryHeaders, FALSE)
    /\ matches(stubHeaders.Matches, queryHeaders, FALSE)

matchInput(queryData, stubInput) ==
    /\ equals(stubInput.Equals, queryData, stubInput.IgnoreArrayOrder)
    /\ contains(stubInput.Contains, queryData, stubInput.IgnoreArrayOrder)
    /\ matches(stubInput.Matches, queryData, stubInput.IgnoreArrayOrder)

match(query, stub) ==
    IF ~matchHeaders(query.Headers, stub.Headers) THEN FALSE
    ELSE matchInput(query.Data, stub.Input)

rankHeaders(queryHeaders, stubHeaders) ==
    IF HeaderLen(stubHeaders) = 0 THEN 0
    ELSE RankMatch(stubHeaders.Equals, queryHeaders)
         + RankMatch(stubHeaders.Contains, queryHeaders)
         + RankMatch(stubHeaders.Matches, queryHeaders)

rankInput(queryData, stubInput) ==
    RankMatch(stubInput.Equals, queryData)
    + RankMatch(stubInput.Contains, queryData)
    + RankMatch(stubInput.Matches, queryData)

rankMatch(query, stub) ==
    rankHeaders(query.Headers, stub.Headers) + rankInput(query.Data, stub.Input)

----------------------------------------------------------------------------
(* storage (hashed index).  A storage value st is the record               *)
(* [lefts, items, itemsByID].                                              *)

newStorage == [lefts |-> {}, items |-> EmptyMap, itemsByID |-> EmptyMap]

\* one iteration of the loop of storage.upsert
upsertOne(st, v) ==
    LET leftID == id(Left(v))
        rightID == id(Right(v))
        index == pos(leftID, rightID)
        m == IF index \in DOMAIN st.items THEN st.items[index] ELSE EmptyMap
    IN  [lefts |-> st.lefts \cup {leftID},
         items |-> MapPut(st.items, index, MapPut(m, Key(v), v)),
         itemsByID |-> MapPut(st.itemsByID, Key(v), v)]

RECURSIVE upsertLoop(_, _)
upsertLoop(st, values) ==
    IF values = <<>> THEN st
    ELSE upsertLoop(upsertOne(st, Head(values)), Tail(values))

\* storage.upsert: the storage afterwards (the returned keys are the keys of
\* the values, in order)
upsert(st, values) == IF Len(values) = 0 THEN st ELSE upsertLoop(st, values)

\* delOne with the entry of itemsByID left behind
delOne_keepsByID(st, key) ==
    IF key \in DOMAIN st.itemsByID THEN
        LET v == st.itemsByID[key]
            p == pos(id(Left(v)), id(Right(v)))
        IN  IF p \in DOMAIN st.items THEN
                LET m == MapDel(st.items[p], key)
                IN  <<[lefts |-> st.lefts,
                       items |-> IF Len0(m) = 0 THEN MapDel(st.items, p)
                                 ELSE MapPut(st.items, p, m),
                       itemsByID |-> st.itemsByID], 1>>
            ELSE <<st, 0>>
    ELSE <<st, 0>>

\* one iteration of the loop of storage.del: <<storage, 1 if deleted else 0>>
delOne(st, key) ==
    IF key \in DOMAIN st.itemsByID THEN
        LET v == st.itemsByID[key]
            p == pos(id(Left(v)), id(Right(v)))
        IN  IF p \in DOMAIN st.items THEN
                LET m == MapDel(st.items[p], key)
                IN  <<[lefts |-> st.lefts,
                       items |-> IF Len0(m) = 0 THEN MapDel(st.items, p)
                                 ELSE MapPut(st.items, p, m),
                       itemsByID |-> MapDel(st.itemsByID, key)], 1>>
            ELSE <<st, 0>>
    ELSE <<st, 0>>

RECURSIVE del(_, _)
\* storage.del: <<storage afterwards, number deleted>>
del(st, keys) ==
    IF keys = <<>> THEN <<st, 0>>
    ELSE LET one == delOne(st, Head(keys))
             rest == del(one[1], Tail(keys))
         IN  <<rest[1], one[2] + rest[2]>>

\* storage.posByN: <<error, key>>
posByN(st, leftName, rightName) ==
    LET leftID == id(leftName)
        key == pos(leftID, id(rightName))
    IN  IF leftID \notin st.lefts THEN <<"ErrLeftNotFound", <<>>>>
        ELSE IF key \notin DOMAIN st.items THEN <<"ErrRightNotFound", <<>>>>
        ELSE <<"", <<key>>>>

\* posByPN that reports the error of the suffix form whenever nothing resolved
posByPN_suffixErrorFirst(st, left, right) ==
    LET full == posByN(st, left, right)
        resolved1 == IF full[1] = "" THEN full[2] ELSE <<>>
    IN  IF HasDot(left) THEN
            LET trunc == posByN(st, truncatedLeft(left), right)
            IN  IF trunc[1] = "" THEN <<"", resolved1 \o trunc[2]>>
                ELSE IF Len(resolved1) = 0 THEN <<trunc[1], <<>>>>
                ELSE <<"", resolved1>>
        ELSE IF Len(resolved1) = 0 THEN <<full[1], <<>>>>
        ELSE <<"", resolved1>>

\* storage.posByPN after its calls of posByN: full is what the call for the
\* whole left name returned, trunc what the call for the suffix returned
posByPNOf(full, trunc, left) ==
    LET resolved1 == IF full[1] = "" THEN full[2] ELSE <<>>
    IN  IF HasDot(left) THEN
            IF trunc[1] = "" THEN <<"", resolved1 \o trunc[2]>>
            ELSE IF trunc[1] = "ErrRightNotFound" /\ Len(resolved1) = 0
                 THEN <<trunc[1], <<>>>>
            ELSE IF Len(resolved1) = 0 THEN <<full[1], <<>>>>
            ELSE <<"", resolved1>>
        ELSE IF Len(resolved1) = 0 THEN <<full[1], <<>>>>
        ELSE <<"", resolved1>>

\* storage.posByPN: <<error, resolved keys>>
posByPN(st, left, right) ==
    posByPNOf(posByN(st, left, right), posByN(st, truncatedLeft(left), right), left)

\* the entries storage.yieldSortedValues collects: one per resolved bucket
\* and key of that bucket, named <<place in indexes, key>>
collected(st, indexes) ==
    UNION {{<<i, k>> : k \in DOMAIN st.items[indexes[i]]} :
            i \in {j \in DOMAIN indexes : indexes[j] \in DOMAIN st.items}}

\* Go's int, kept at IntBits bits: the values MinInt .. MaxInt, and
\* arithmetic that wraps around
MinInt == -(2 ^ (IntBits - 1))
MaxInt == 2 ^ (IntBits - 1) - 1
wrapInt(x) == ((x - MinInt) % (2 ^ IntBits)) + MinInt

\* the comparison function yieldSortedValues sorts with:
\* func(a, b sortItem) int { return b.score - a.score }
sortCmp(a, b) == wrapInt(Score(b) - Score(a))

\* slices.SortFunc on a short slice: insertion sort, an element moving
\* down while the comparison with the one before it is negative
RECURSIVE sink(_, _)
sink(s, j) ==
    IF j > 1 /\ sortCmp(s[j], s[j - 1]) < 0
    THEN sink([s EXCEPT ![j] = s[j - 1], ![j - 1] = s[j]], j - 1)
    ELSE s

RECURSIVE sortFrom(_, _)
sortFrom(s, i) == IF i > Len(s) THEN s ELSE sortFrom(sink(s, i), i + 1)

SortFunc(s) == IF Len(s) > 1 THEN sortFrom(s, 2) ELSE s

\* storage.yieldSortedValues: every order it can yield, the order of the
\* collected values (map iteration) being free before the sort
yieldSortedValues(st, indexes) ==
    {SortFunc([n \in DOMAIN f |-> st.items[indexes[f[n][1]]][f[n][2]]]) :
        f \in Perms(collected(st, indexes))}

\* storage.findAll: <<error, the sequences the iterator can yield>>
findAll(st, left, right) ==
    LET r == posByPN(st, left, right)
    IN  IF r[1] # "" THEN <<r[1], {}>>
        ELSE <<"", yieldSortedValues(st, r[2])>>

\* storage.values: every order the iterator can yield
values(st) ==
    {[n \in DOMAIN f |-> st.itemsByID[f[n]]] : f \in Perms(DOMAIN st.itemsByID)}

\* storage.findByID: nil, or the value
findByID(st, key) ==
    IF key \in DOMAIN st.itemsByID THEN <<st.itemsByID[key]>> ELSE <<>>

\* storage.findByIDs over the keys of a set, in every order the key
\* iterator can yield; misses are skipped
RECURSIVE findByIDsSeq(_, _)
findByIDsSeq(st, ids) ==
    IF ids = <<>> THEN <<>>
    ELSE (IF Head(ids) \in DOMAIN st.itemsByID
          THEN <<st.itemsByID[Head(ids)]>> ELSE <<>>)
         \o findByIDsSeq(st, Tail(ids))

findByIDs(st, idSet) == {findByIDsSeq(st, f) : f \in Perms(idSet)}

----------------------------------------------------------------------------
(* searcher *)

St == [lefts |-> lefts, items |-> items, itemsByID |-> itemsByID]

\* searcher.wrap
wrap(err) ==
    IF err = "ErrLeftNotFound" THEN "ErrServiceNotFound"
    ELSE IF err = "ErrRightNotFound" THEN "ErrMethodNotFound"
    ELSE err

\* sortStubsByID that leaves the stubs as they came
sortStubsByID_unsorted(stubs) == {stubs}

\* sortStubsByID: the orders sort.Slice can leave, ascending by ID (the sort
\* is not stable: equal IDs may end in either order)
sortStubsByID(stubs) ==
    {[n \in DOMAIN stubs |-> stubs[f[n]]] :
        f \in {g \in Perms(DOMAIN stubs) :
                \A a, b \in DOMAIN g : a < b => stubs[g[a]].ID <= stubs[g[b]].ID}}

\* the loop body of searchCommon, with found chosen by match alone
searchStep_lastMatchWins(acc, stub, query) ==
    LET current == rankMatch(query, stub)
        priorityBonus == stub.Priority * PriorityMultiplier
        totalRank == current + priorityBonus
        a1 == IF totalRank > acc.similarRank
              THEN [acc EXCEPT !.similar = <<stub>>, !.similarRank = totalRank]
              ELSE acc
    IN  IF match(query, stub)
        THEN [a1 EXCEPT !.found = <<stub>>, !.foundRank = totalRank]
        ELSE a1

\* the loop body of searchCommon, with similar chosen by rank without the
\* priority bonus
searchStep_similarByRank(acc, stub, query) ==
    LET current == rankMatch(query, stub)
        priorityBonus == stub.Priority * PriorityMultiplier
        totalRank == current + priorityBonus
        a1 == IF current > acc.similarRank
              THEN [acc EXCEPT !.similar = <<stub>>, !.similarRank = current]
              ELSE acc
    IN  IF match(query, stub) /\ totalRank > a1.foundRank
        THEN [a1 EXCEPT !.found = <<stub>>, !.foundRank = totalRank]
        ELSE a1

\* the loop body of searchCommon: one stub against the four locals acc
searchStep(acc, stub, query) ==
    LET current == rankMatch(query, stub)
        priorityBonus == stub.Priority * PriorityMultiplier
        totalRank == current + priorityBonus
        a1 == IF totalRank > acc.similarRank
              THEN [acc EXCEPT !.similar = <<stub>>, !.similarRank = totalRank]
              ELSE acc
    IN  IF match(query, stub) /\ totalRank > a1.foundRank
        THEN [a1 EXCEPT !.found = <<stub>>, !.foundRank = totalRank]
        ELSE a1

\* the walk of searchCommon over the sorted stubs
RECURSIVE searchWalk(_, _, _)
searchWalk(acc, stubs, query) ==
    IF stubs = <<>> THEN acc
    ELSE searchWalk(searchStep(acc, Head(stubs), query), Tail(stubs), query)

searchStart == [found |-> <<>>, foundRank |-> 0, similar |-> <<>>, similarRank |-> 0]

\* what searchCommon returns once the walk is over
searchResult(acc) ==
    IF acc.found # <<>> THEN [err |-> "", found |-> acc.found, similar |-> <<>>]
    ELSE IF acc.similar # <<>> THEN [err |-> "", found |-> <<>>, similar |-> acc.similar]
    ELSE [err |-> "ErrStubNotFound", found |-> <<>>, similar |-> <<>>]

\* searcher.search / searchCommon: every result the call can give, over the
\* orders in which the bucket can be enumerated
search(st, query) ==
    LET r == findAll(st, query.Service, query.Method)
    IN  IF r[1] # "" THEN {[err |-> wrap(r[1]), found |-> <<>>, similar |-> <<>>]}
        ELSE {searchResult(searchWalk(searchStart, sorted, query)) :
                sorted \in UNION {sortStubsByID(seq) : seq \in r[2]}}

\* searchByID without the check of the service and the method
searchByID_unchecked(st, query) ==
    IF findByID(st, query.ID[1]) # <<>>
    THEN {[err |-> "", found |-> findByID(st, query.ID[1]), similar |-> <<>>]}
    ELSE {[err |-> "ErrServiceNotFound", found |-> <<>>, similar |-> <<>>]}

\* searcher.searchByID
searchByID(st, query) ==
    LET r == posByPN(st, query.Service, query.Method)
    IN  IF r[1] # "" THEN {[err |-> wrap(r[1]), found |-> <<>>, similar |-> <<>>]}
        ELSE IF findByID(st, query.ID[1]) # <<>>
             THEN {[err |-> "", found |-> findByID(st, query.ID[1]), similar |-> <<>>]}
        ELSE {[err |-> "ErrServiceNotFound", found |-> <<>>, similar |-> <<>>]}

\* searcher.find
find(st, query) == IF query.ID # <<>> THEN searchByID(st, query) ELSE search(st, query)

\* searcher.mark: the usage set afterwards
mark(used, query, i) == IF RequestInternal(query) THEN used ELSE used \cup {i}

\* searcher.used: every order of the result
used(st, usedSet) == findByIDs(st, usedSet)

\* searcher.unused that filters nothing out
unused_everything(st, usedSet) == values(st)

\* searcher.unused: every order of the result
unused(st, usedSet) ==
    {SelectSeq(all, LAMBDA stub : stub.ID \notin usedSet) : all \in values(st)}

----------------------------------------------------------------------------
(* Stream stubs and the V2 rank (matcher.go).  The source weighs parts of   *)
(* a rank by 0.1, so V2 ranks and the scores built from them are counted    *)
(* in tenths.                                                               *)

RankScale == 10

MkStreamStub(i, service, method, priority, input, stream, serverStream) ==
    [MkStub(i, service, method, priority, NoHeaders, input)
        EXCEPT !.Stream = stream, !.ServerStream = serverStream]

\* an InputData with at least one predicate
HasMatchers(inputData) ==
    Len0(inputData.Equals) > 0 \/ Len0(inputData.Contains) > 0 \/ Len0(inputData.Matches) > 0

IsUnary(stub) == HasMatchers(stub.Input)
IsClientStream(stub) == Len(stub.Stream) > 0
IsServerStream(stub) == stub.ServerStream

\* QueryV2{Service, Method, Headers, Input}: a literal sets no toggles
MkQueryV2(service, method, headers, input) ==
    [ID |-> <<>>, Service |-> service, Method |-> method, Headers |-> headers,
     Input |-> input, internal |-> FALSE]

MaxOf(S) == CHOOSE x \in S : \A y \in S : y <= x

RECURSIVE SumOf(_, _)
SumOf(f, S) ==
    IF S = {} THEN 0
    ELSE LET x == CHOOSE y \in S : TRUE IN f[x] + SumOf(f, S \ {x})

\* elementRank of rankStreamElements, in tenths
elementRank(stubItem, queryItem) ==
    (IF Len0(stubItem.Equals) > 0
        /\ equals(stubItem.Equals, queryItem, stubItem.IgnoreArrayOrder)
     THEN 100 * RankScale ELSE 0)
    + RankMatch(stubItem.Contains, queryItem)
    + RankMatch(stubItem.Matches, queryItem)

\* whether equalsRank of rankStreamElements is 1.0
perfectMatch(stubItem, queryItem) ==
    Len0(stubItem.Equals) > 0
    /\ equals(stubItem.Equals, queryItem, stubItem.IgnoreArrayOrder)

\* rankStreamElements, in tenths
rankStreamElements(queryStream, stubStream) ==
    LET n == Len(queryStream)
        effectiveQueryLength ==
            IF n > 0 /\ Len0(queryStream[n]) = 0 THEN n - 1 ELSE n
    IN  IF effectiveQueryLength = 1 /\ Len(stubStream) > 1
        THEN LET ranks == {elementRank(stubStream[k], queryStream[1]) :
                              k \in {j \in DOMAIN stubStream : HasMatchers(stubStream[j])}}
             IN  MaxOf(ranks \cup {0}) + 500 * RankScale
        ELSE IF effectiveQueryLength # Len(stubStream) THEN 1
        ELSE IF effectiveQueryLength = 0 /\ Len(stubStream) > 0 THEN 0
        ELSE LET idx == 1 .. effectiveQueryLength
                 totalRank ==
                     SumOf([k \in idx |-> elementRank(stubStream[k], queryStream[k])], idx)
                 perfectMatches ==
                     Cardinality({k \in idx : perfectMatch(stubStream[k], queryStream[k])})
                 lengthBonus == effectiveQueryLength * 10 * RankScale
                 perfectMatchBonus == perfectMatches * 1000 * RankScale
                 completeMatchBonus ==
                     IF perfectMatches = effectiveQueryLength /\ effectiveQueryLength > 0
                     THEN 10000 * RankScale ELSE 0
                 specificity ==
                     SumOf([k \in DOMAIN stubStream |->
                               Len0(stubStream[k].Equals) + Len0(stubStream[k].Contains)
                               + Len0(stubStream[k].Matches)], DOMAIN stubStream)
             IN  totalRank + lengthBonus + perfectMatchBonus + completeMatchBonus
                 + specificity * 50 * RankScale

\* rankMatchV2, in tenths
rankMatchV2(query, stub) ==
    IF Len(stub.Stream) = 0 /\ Len(query.Input) = 1
    THEN RankScale * (rankHeaders(query.Headers, stub.Headers)
                      + rankInput(query.Input[1], stub.Input))
    ELSE IF Len(stub.Stream) > 0
    THEN RankScale * rankHeaders(query.Headers, stub.Headers)
         + rankStreamElements(query.Input, stub.Stream)
    ELSE RankScale * rankHeaders(query.Headers, stub.Headers)

----------------------------------------------------------------------------
(* BidiResult.  A handle br is the record of its fields, service, method,   *)
(* headers, allStubs, candidateStubs, messageIndex, isFirstCall, together   *)
(* with its history.  A message is <<>> for nil and <<doc>> otherwise.      *)

\* toCamelCase / toSnakeCase: a key without '_' and without an upper-case
\* letter, as all keys of Keys are, is returned as it is
toCamelCase(s) == s
toSnakeCase(s) == s

\* findValueWithVariations: <<value>> when found, <<>> otherwise
findValueWithVariations(messageData, key) ==
    IF key \in DOMAIN messageData THEN <<messageData[key]>>
    ELSE IF toCamelCase(key) \in DOMAIN messageData THEN <<messageData[toCamelCase(key)]>>
    ELSE IF toSnakeCase(key) \in DOMAIN messageData THEN <<messageData[toSnakeCase(key)]>>
    ELSE <<>>

\* deepEqual on two strings
deepEqual(a, b) == a = b

matchInputData(inputData, messageData) ==
    IF ~HasMatchers(inputData) THEN TRUE
    ELSE /\ \A key \in DOMAIN inputData.Equals :
                LET f == findValueWithVariations(messageData, key)
                IN  f # <<>> /\ deepEqual(f[1], inputData.Equals[key])
         /\ \A key \in DOMAIN inputData.Contains :
                /\ key \in DOMAIN messageData
                /\ contains([k \in {key} |-> inputData.Contains[key]], messageData[key], FALSE)
         /\ \A key \in DOMAIN inputData.Matches :
                /\ key \in DOMAIN messageData
                /\ matches([k \in {key} |-> inputData.Matches[key]], messageData[key], FALSE)

\* canStubMatchPattern that keeps every stub with predicates
canStubMatchPattern_keepsUnary(br, stub) ==
    IF IsUnary(stub) THEN TRUE
    ELSE IF IsClientStream(stub) THEN br.messageIndex < Len(stub.Stream)
    ELSE IsServerStream(stub)

canStubMatchPattern(br, stub) ==
    IF IsClientStream(stub) THEN br.messageIndex < Len(stub.Stream)
    ELSE IF IsUnary(stub) THEN TRUE
    ELSE IF IsServerStream(stub) THEN TRUE
    ELSE FALSE

stubMatchesCurrentMessage(br, stub, messageData) ==
    IF IsClientStream(stub) /\ br.messageIndex < Len(stub.Stream)
    THEN matchInputData(stub.Stream[br.messageIndex + 1], messageData)
    ELSE IF IsUnary(stub) THEN matchInputData(stub.Input, messageData)
    ELSE IF IsServerStream(stub) THEN matchInputData(stub.Input, messageData)
    ELSE FALSE

rankStub(stub, query) == rankMatchV2(query, stub)

\* searcher.markV2
markV2(usedSet, query, i) == IF RequestInternal(query) THEN usedSet ELSE usedSet \cup {i}

NoHandle ==
    [made |-> FALSE, service |-> "", method |-> "", headers |-> EmptyMap,
     allStubs |-> <<>>, candidateStubs |-> <<>>, messageIndex |-> 0,
     isFirstCall |-> TRUE,
     internal |-> FALSE, byID |-> <<>>, calls |-> 0, handled |-> 0,
     failed |-> {}, failedBefore |-> {}, starved |-> FALSE, starvedBefore |-> FALSE,
     last |-> <<>>]

\* the BidiResult literal of findBidi and searchByIDBidi
MkBidiResult(query, allStubs, candidateStubs) ==
    [NoHandle EXCEPT !.made = TRUE, !.service = query.Service, !.method = query.Method,
                     !.headers = query.Headers, !.allStubs = allStubs,
                     !.candidateStubs = candidateStubs,
                     !.internal = query.internal, !.byID = query.ID]

\* searchByIDBidi that seeds the handle with the whole bucket
searchByIDBidi_wholeBucket(st, query) ==
    LET r == posByPN(st, query.Service, query.Method)
        all == findAll(st, query.Service, query.Method)
    IN  IF r[1] # "" THEN {[err |-> wrap(r[1]), br |-> NoHandle]}
        ELSE {[err |-> "", br |-> [NoHandle EXCEPT !.made = TRUE, !.service = query.Service,
                                      !.method = query.Method, !.allStubs = seq,
                                      !.byID = query.ID]] : seq \in all[2]}

\* searchByIDBidi: the error and the handle
searchByIDBidi(st, query) ==
    LET r == posByPN(st, query.Service, query.Method)
        found == findByID(st, query.ID[1])
    IN  IF r[1] # "" THEN {[err |-> wrap(r[1]), br |-> NoHandle]}
        ELSE IF found # <<>> THEN {[err |-> "", br |-> MkBidiResult(query, found, found)]}
        ELSE {[err |-> "ErrServiceNotFound", br |-> NoHandle]}

\* findBidi: the error and the handle, for every order findAll can yield
findBidi(st, query) ==
    IF query.ID # <<>> THEN searchByIDBidi(st, query)
    ELSE LET r == posByPN(st, query.Service, query.Method)
             all == findAll(st, query.Service, query.Method)
         IN  IF r[1] # "" THEN {[err |-> wrap(r[1]), br |-> NoHandle]}
             ELSE IF all[1] # "" THEN {[err |-> wrap(all[1]), br |-> NoHandle]}
             ELSE {[err |-> "", br |-> MkBidiResult(query, seq, <<>>)] : seq \in all[2]}

\* the candidate filter of Next: the handle with candidateStubs,
\* messageIndex and isFirstCall as the filter leaves them
filterCandidates(br) ==
    IF br.isFirstCall
    THEN LET b0 == [br EXCEPT !.messageIndex = 0, !.isFirstCall = FALSE]
         IN  [b0 EXCEPT !.candidateStubs =
                    SelectSeq(br.allStubs, LAMBDA stub : canStubMatchPattern(b0, stub))]
    ELSE LET b1 == [br EXCEPT !.messageIndex = br.messageIndex + 1]
         IN  [b1 EXCEPT !.candidateStubs =
                    SelectSeq(br.candidateStubs, LAMBDA stub : canStubMatchPattern(b1, stub))]

NoBest == [bestStub |-> <<>>, bestRank |-> 0, candidatesWithSameRank |-> <<>>]

\* the body of the selection loop of Next
bestStep(acc, br, stub, query, messageData) ==
    IF ~stubMatchesCurrentMessage(br, stub, messageData) THEN acc
    ELSE LET rank == rankStub(stub, query)
             priorityBonus == stub.Priority * PriorityMultiplier * RankScale
             totalRank == rank + priorityBonus
         IN  IF totalRank > acc.bestRank
             THEN [bestStub |-> <<stub>>, bestRank |-> totalRank,
                   candidatesWithSameRank |-> <<stub>>]
             ELSE IF totalRank = acc.bestRank
             THEN [acc EXCEPT !.candidatesWithSameRank = Append(@, stub)]
             ELSE acc

RECURSIVE bestWalk(_, _, _, _, _)
bestWalk(acc, br, stubs, query, messageData) ==
    IF stubs = <<>> THEN acc
    ELSE bestWalk(bestStep(acc, br, Head(stubs), query, messageData),
                  br, Tail(stubs), query, messageData)

\* the stubs Next can return after the loop: the first of the tied
\* candidates once sorted by id, the best stub otherwise
bestPick(acc) ==
    IF Len(acc.candidatesWithSameRank) > 1
    THEN {<<order[1]>> : order \in sortStubsByID(acc.candidatesWithSameRank)}
    ELSE {acc.bestStub}

\* the checks Next makes before it touches the handle
rejected(br, message) ==
    message = <<>> \/ br.service = "" \/ br.method = "" \/ Len(br.allStubs) = 0

\* BidiResult.Next: every [br, stub] it can end with; stub = <<>> is
\* ErrStubNotFound
next(br, message) ==
    IF rejected(br, message) THEN {[br |-> br, stub |-> <<>>]}
    ELSE LET b == filterCandidates(br)
             query == MkQueryV2(br.service, br.method, br.headers, message)
         IN  IF Len(b.candidateStubs) = 0 THEN {[br |-> b, stub |-> <<>>]}
             ELSE {[br |-> b, stub |-> best] :
                      best \in bestPick(bestWalk(NoBest, b, b.candidateStubs, query, message[1]))}

----------------------------------------------------------------------------
(* Budgerigar facade: one action per public method *)

Res(op, query, err, found, similar, stubs, ids, n) ==
    [op |-> op, query |-> query, err |-> err, found |-> found, similar |-> similar,
     stubs |-> stubs, ids |-> ids, n |-> n]

NoQuery == <<>>

\* every uuid some part of the state still mentions
KnownIds ==
    (DOMAIN itemsByID) \cup stubUsed \cup upserted
    \cup UNION {DOMAIN items[p] : p \in DOMAIN items}

KeysOf(vals) == [n \in DOMAIN vals |-> Key(vals[n])]

SetStorage(st) ==
    /\ lefts' = st.lefts
    /\ items' = st.items
    /\ itemsByID' = st.itemsByID

\* PutMany that gives no uuid to the values without a key
PutMany_keepsNil(vals, fresh) ==
    /\ DOMAIN fresh = DOMAIN vals
    /\ \A n \in DOMAIN vals : fresh[n] = NilID
    /\ SetStorage(upsert(St, vals))
    /\ upserted' = upserted \cup Range(KeysOf(vals))
    /\ res' = Res("PutMany", NoQuery, "", <<>>, <<>>, vals, KeysOf(vals), 0)
    /\ UNCHANGED <<stubUsed, toggles>>

\* PutMany: uuid.New() for every value without a key, then searcher.upsert.
\* fresh gives the new uuid of each place; uuid.New() repeats no uuid.
\* res.stubs keeps the values as they were passed.
PutMany(vals, fresh) ==
    LET zero == {n \in DOMAIN vals : Key(vals[n]) = NilID}
        given == {Key(vals[n]) : n \in (DOMAIN vals) \ zero}
        fixed == [n \in DOMAIN vals |->
                    IF n \in zero THEN [vals[n] EXCEPT !.ID = fresh[n]] ELSE vals[n]]
    IN  /\ DOMAIN fresh = DOMAIN vals
        /\ \A n \in zero : fresh[n] \in Ids \ (KnownIds \cup given)
        /\ \A n, k \in zero : fresh[n] = fresh[k] => n = k
        /\ \A n \in (DOMAIN vals) \ zero : fresh[n] = NilID
        /\ SetStorage(upsert(St, fixed))
        /\ upserted' = upserted \cup Range(KeysOf(fixed))
        /\ res' = Res("PutMany", NoQuery, "", <<>>, <<>>, vals, KeysOf(fixed), 0)
        /\ UNCHANGED <<stubUsed, toggles>>

\* UpdateMany: searcher.upsert of the values that have a key
UpdateMany(vals) ==
    LET updates == SelectSeq(vals, LAMBDA v : Key(v) # NilID)
    IN  /\ SetStorage(upsert(St, updates))
        /\ upserted' = upserted \cup Range(KeysOf(updates))
        /\ res' = Res("UpdateMany", NoQuery, "", <<>>, <<>>, <<>>, KeysOf(updates), 0)
        /\ UNCHANGED <<stubUsed, toggles>>

\* DeleteByID: searcher.del
DeleteByID(ids) ==
    LET r == del(St, ids)
    IN  /\ SetStorage(r[1])
        /\ upserted' = upserted \ Range(ids)
        /\ res' = Res("DeleteByID", NoQuery, "", <<>>, <<>>, <<>>, ids, r[2])
        /\ UNCHANGED <<stubUsed, toggles>>

\* Clear with the usage set left as it is
Clear_keepsUsed ==
    /\ SetStorage(newStorage)
    /\ upserted' = {}
    /\ res' = Res("Clear", NoQuery, "", <<>>, <<>>, <<>>, <<>>, 0)
    /\ UNCHANGED <<stubUsed, toggles>>

\* Clear: searcher.clear
Clear ==
    /\ stubUsed' = {}
    /\ SetStorage(newStorage)
    /\ upserted' = {}
    /\ res' = Res("Clear", NoQuery, "", <<>>, <<>>, <<>>, <<>>, 0)
    /\ UNCHANGED toggles

\* FindByID: searcher.findByID
FindByID(i) ==
    /\ res' = Res("FindByID", NoQuery, "", findByID(St, i), <<>>, <<>>, <<i>>, 0)
    /\ UNCHANGED <<lefts, items, itemsByID, stubUsed, toggles, upserted>>

\* FindBy: searcher.findBy
FindBy(service, method) ==
    LET r == findAll(St, service, method)
        q == MkQuery(<<>>, service, method, EmptyMap, EmptyMap, TRUE)
    IN  /\ IF r[1] # ""
           THEN res' = Res("FindBy", q, wrap(r[1]), <<>>, <<>>, <<>>, <<>>, 0)
           ELSE \E seq \in r[2] :
                    res' = Res("FindBy", q, "", <<>>, <<>>, seq, <<>>, 0)
        /\ UNCHANGED <<lefts, items, itemsByID, stubUsed, toggles, upserted>>

\* All: searcher.all
All ==
    /\ \E seq \in values(St) :
            res' = Res("All", NoQuery, "", <<>>, <<>>, seq, <<>>, 0)
    /\ UNCHANGED <<lefts, items, itemsByID, stubUsed, toggles, upserted>>

\* Used: searcher.used
Used ==
    /\ \E seq \in used(St, stubUsed) :
            res' = Res("Used", NoQuery, "", <<>>, <<>>, seq, <<>>, 0)
    /\ UNCHANGED <<lefts, items, itemsByID, stubUsed, toggles, upserted>>

\* Unused: searcher.unused
Unused ==
    /\ \E seq \in unused(St, stubUsed) :
            res' = Res("Unused", NoQuery, "", <<>>, <<>>, seq, <<>>, 0)
    /\ UNCHANGED <<lefts, items, itemsByID, stubUsed, toggles, upserted>>

\* FindByQuery: title-cases the method under the MethodTitle toggle, then
\* searcher.find, which marks the stub it found
FindByQuery(q0) ==
    LET query == IF "MethodTitle" \in toggles
                 THEN [q0 EXCEPT !.Method = titleCase(q0.Method)] ELSE q0
    IN  /\ \E r \in find(St, query) :
            /\ res' = Res("FindByQuery", query, r.err, r.found, r.similar, <<>>, <<>>, 0)
            /\ stubUsed' = IF r.found # <<>> THEN mark(stubUsed, query, r.found[1].ID)
                           ELSE stubUsed
        /\ UNCHANGED <<lefts, items, itemsByID, toggles, upserted>>

\* QueryBidi{ID, Service, Method, Headers} and its internal flag
MkQueryBidi(qid, service, method, headers, internal) ==
    [ID |-> qid, Service |-> service, Method |-> method, Headers |-> headers,
     internal |-> internal]

\* FindByQueryBidi: searcher.findBidi; the handle it returns becomes the
\* handle in use
FindByQueryBidi(query) ==
    /\ \E r \in findBidi(St, query) :
            /\ bidi' = r.br
            /\ res' = Res("FindByQueryBidi", query, r.err, <<>>, <<>>, r.br.allStubs, <<>>, 0)
    /\ UNCHANGED <<lefts, items, itemsByID, stubUsed, toggles, upserted, writes,
                   usedAtClear, lk, rd, nx, rc>>

\* the candidates of the handle, once filtered for this message (a document
\* with fields), that are client-stream stubs and do not match it
failing(br, message) ==
    IF rejected(br, message) \/ message = <<EmptyMap>> THEN {}
    ELSE LET b == filterCandidates(br)
         IN  {b.candidateStubs[n].ID : n \in
                {j \in DOMAIN b.candidateStubs :
                    /\ IsClientStream(b.candidateStubs[j])
                    /\ ~stubMatchesCurrentMessage(b, b.candidateStubs[j], message[1])}}

\* the message is a document with fields, and no candidate of the handle,
\* once filtered for it, matches it
noneMatches(br, message) ==
    /\ ~rejected(br, message)
    /\ message[1] # EmptyMap
    /\ LET b == filterCandidates(br)
       IN  \A n \in DOMAIN b.candidateStubs :
               ~stubMatchesCurrentMessage(b, b.candidateStubs[n], message[1])

\* Next on the handle in use: BidiResult.Next, which marks the stub it
\* returns; the history of the handle is brought up to date
BidiNext(message) ==
    /\ bidi.made
    /\ \E r \in next(bidi, message) :
         LET query == MkQueryV2(bidi.service, bidi.method, bidi.headers, message)
         IN  /\ bidi' = [r.br EXCEPT
                    !.calls = bidi.calls + 1,
                    !.handled = IF rejected(bidi, message) THEN @ ELSE @ + 1,
                    !.failedBefore = bidi.failed,
                    !.failed = bidi.failed \cup failing(bidi, message),
                    !.starvedBefore = bidi.starved,
                    !.starved = bidi.starved \/ noneMatches(bidi, message),
                    !.last = message]
             /\ res' = Res("Next", query, IF r.stub = <<>> THEN "ErrStubNotFound" ELSE "",
                           r.stub, <<>>, <<>>, <<>>, 0)
             /\ stubUsed' = IF r.stub # <<>> THEN markV2(stubUsed, query, r.stub[1].ID)
                            ELSE stubUsed
    /\ UNCHANGED <<lefts, items, itemsByID, toggles, upserted, writes, usedAtClear, lk, rd, nx, rc>>

----------------------------------------------------------------------------
(* Inputs and scheduling shared by the specifications *)

\* no FindBy in progress.  pc is the place of the call: "idle", "trunc"
\* (before the posByN of the suffix) or "yield" (before yieldSortedValues);
\* seen is the history of the storages since the call began.
NoRead ==
    [pc |-> "idle", left |-> "", right |-> "", full |-> <<"", <<>>>>,
     indexes |-> <<>>, seen |-> {}]

\* the goroutines that call Next and the handles they share
Callers == 1 .. 2
Handles == 1 .. 2

\* a goroutine that has made no call.  pc is "idle", "wait" (blocked in
\* br.mu.Lock()) or "pick" (holding the lock, before the selection loop);
\* expect, result, after, overlapped and returned are history.
NoCall ==
    [pc |-> "idle", handle |-> 0, message |-> <<>>, expect |-> {}, result |-> <<>>,
     after |-> NoHandle, overlapped |-> FALSE, returned |-> FALSE]

\* no handle made, no lock held (0), no call made
NoCalls ==
    [handles |-> [h \in Handles |-> NoHandle], lock |-> [h \in Handles |-> 0],
     callers |-> [c \in Callers |-> NoCall], calls |-> 0]

\* the goroutines that call getRegex
Lookers == 1 .. 2

\* regexCache after init(): no entry.  entries are the cached patterns,
\* the most recently used first; pc of a goroutine is "idle" or "add"
\* (after a miss and a successful regexp.Compile, before regexCache.Add)
\* with its pattern; uses (the patterns in the order of their last use by
\* a cache operation, the latest first) and evicted are history.
NoCache ==
    [entries |-> <<>>, pc |-> [g \in Lookers |-> "idle"],
     pattern |-> [g \in Lookers |-> ""], uses |-> <<>>, evicted |-> {}]

\* the goroutines that call the facade and the handles at the same time
Goroutines == 1 .. 3

\* searcher.mu, storage.mu and the mutex of each of two BidiResult handles
Mutexes == {"searcher.mu", "storage.mu", "br1.mu", "br2.mu"}

\* no call in progress, every mutex free.  prog[g] is what goroutine g has
\* still to do to its mutexes before its call returns; writer[m] is the
\* goroutine that holds m for writing or has announced itself as its next
\* writer (0 for none); readers[m] are the goroutines that hold m for reading
NoLocks ==
    [prog |-> [g \in Goroutines |-> <<>>],
     writer |-> [m \in Mutexes |-> 0],
     readers |-> [m \in Mutexes |-> {}]]

Singles(S) == [1 .. 1 -> S]
Pairs(S) == [1 .. 2 -> S]

Write(A) ==
    /\ writes < MaxWrites
    /\ A
    /\ writes' = writes + 1
    /\ usedAtClear' = IF res'.op = "Clear" THEN stubUsed ELSE usedAtClear
    /\ rd' = IF rd.pc = "idle" THEN rd ELSE [rd EXCEPT !.seen = @ \cup {St'}]
    /\ UNCHANGED <<bidi, nx, rc, lk>>

Read(A) == A /\ UNCHANGED <<writes, usedAtClear, lk, rd, nx, rc, bidi>>

NewBudgerigar(t) ==
    /\ lefts = newStorage.lefts
    /\ items = newStorage.items
    /\ itemsByID = newStorage.itemsByID
    /\ stubUsed = {}
    /\ toggles = t
    /\ upserted = {}
    /\ writes = 0
    /\ usedAtClear = {}
    /\ lk = NoLocks
    /\ rd = NoRead
    /\ nx = NoCalls
    /\ rc = NoCache
    /\ res = Res("NewBudgerigar", NoQuery, "", <<>>, <<>>, <<>>, <<>>, 0)
    /\ bidi = NoHandle

----------------------------------------------------------------------------
(* Spec: the index.  Stubs without predicates are upserted, replaced,      *)
(* deleted and read back.                                                   *)

IndexStubs ==
    {MkStub(i, s, m, p, NoHeaders, NoInput) :
        i \in Ids \cup {NilID}, s \in StubServices, m \in StubMethods, p \in {0, 1}}

\* stubs of the two-stub batches
PairStubs == {v \in IndexStubs : v.Priority = 1 /\ v.Method = "SayHello"}

IndexBatches == Singles(IndexStubs) \cup Pairs(PairStubs)

Init == NewBudgerigar({})

Next ==
    \/ Write(\E vals \in IndexBatches :
                \E fresh \in [DOMAIN vals -> Ids \cup {NilID}] : PutMany(vals, fresh))
    \/ Write(\E vals \in IndexBatches : UpdateMany(vals))
    \/ Write(\E ids \in Singles(Ids) \cup Pairs(Ids) : DeleteByID(ids))
    \/ Write(Clear)
    \/ Read(\E i \in Ids : FindByID(i))
    \/ Read(\E s \in QueryServices, m \in StubMethods : FindBy(s, m))
    \/ Read(All)
    \/ Read(Used)
    \/ Read(Unused)

Spec == Init /\ [][Next]_vars

----------------------------------------------------------------------------
(* What the reads return in the current state *)

IdsOf(seq) == {seq[n].ID : n \in DOMAIN seq}

\* the bucket a stub belongs to
BucketOf(v) == pos(id(Left(v)), id(Right(v)))

\* the buckets that hold an entry for uuid i
BucketsWith(i) == {p \in DOMAIN items : i \in DOMAIN items[p]}

\* FindBy(service, method) can return a stub with uuid i
FindByReturns(service, method, i) ==
    \E seq \in findAll(St, service, method)[2] : i \in IdsOf(seq)

\* the live stubs FindBy(service, method) is to return
Registered(service, method) ==
    {v \in {itemsByID[i] : i \in DOMAIN itemsByID} :
        /\ v.Method = method
        /\ \/ v.Service = service
           \/ HasDot(service) /\ v.Service = truncatedLeft(service)}

\* some uuid was upserted again under another (service, method)
Moved == \E i \in DOMAIN itemsByID : \E p \in BucketsWith(i) : items[p][i] # itemsByID[i]

----------------------------------------------------------------------------
(* Claims about the index, under Spec *)

\* C1: every live stub id is contained in exactly one (service, method)
\* bucket, the bucket of its current service and method, and FindBy on a
\* pair the stub was moved away from does not return it.
C1_ExactlyOneBucket ==
    /\ \A i \in DOMAIN itemsByID : BucketsWith(i) = {BucketOf(itemsByID[i])}
    /\ \A i \in DOMAIN itemsByID : \A s \in QueryServices, m \in StubMethods :
            FindByReturns(s, m, i) => itemsByID[i] \in Registered(s, m)

\* C2: an id that was deleted and not upserted again is returned by no
\* read: not by FindByID, not by All, not by FindBy of any pair.
C2_DeletedNotReturned ==
    \A i \in Ids \ upserted :
        /\ findByID(St, i) = <<>>
        /\ \A seq \in values(St) : i \notin IdsOf(seq)
        /\ \A s \in QueryServices, m \in StubMethods : ~FindByReturns(s, m, i)

\* C3: FindBy(s, m) returns all and only the live stubs registered under
\* (s, m) or, for a dotted s, under (the part of s after its last dot, m);
\* it fails only when there is none.
C3_FindByAllAndOnly ==
    \A s \in QueryServices, m \in StubMethods :
        LET r == findAll(St, s, m)
        IN  IF r[1] # "" THEN Registered(s, m) = {}
            ELSE \A seq \in r[2] :
                    /\ Range(seq) = Registered(s, m)
                    /\ Len(seq) = Cardinality(Registered(s, m))

\* C4: All() returns exactly one stub per id upserted and not since
\* deleted, so its length is the number of those ids; upserting an id that
\* is already present leaves that number unchanged.
C4_AllCountsLiveIds ==
    \A seq \in values(St) :
        /\ Len(seq) = Cardinality(upserted)
        /\ IdsOf(seq) = upserted

\* C4 witness: after three writes two ids are live, one of them upserted a
\* second time, under another (service, method), by the last UpdateMany
C4_Witness ==
    /\ Cardinality(upserted) = 2
    /\ Moved
    /\ res.op = "UpdateMany"
    /\ writes = 3

----------------------------------------------------------------------------
(* SpecSearch: selection.  One PutMany has registered up to MaxCandidates   *)
(* stubs with predicates under Greeter/SayHello; payload queries follow.    *)

HeaderDocs == {EmptyMap, [k \in {"authorization"} |-> "a"]}

SearchInputs ==
    {NoInput,
     [NoInput EXCEPT !.Equals = [k \in {"name"} |-> "a"]],
     [NoInput EXCEPT !.Equals = [k \in {"name", "id"} |-> "a"]],
     [NoInput EXCEPT !.Contains = [k \in {"id"} |-> "a"]],
     [NoInput EXCEPT !.Matches = [k \in {"name"} |-> "^[ab]$"]]}

SearchHeaders == {[NoHeaders EXCEPT !.Equals = h] : h \in HeaderDocs}

SearchPriorities == {-2, -1, 0, 1}

SearchStubs(i) ==
    {MkStub(i, "Greeter", "SayHello", p, h, in) :
        p \in SearchPriorities, h \in SearchHeaders, in \in SearchInputs}

SearchData ==
    {d \in Docs : "id" \in DOMAIN d => d["id"] = "a"}

SearchQueries ==
    {MkQuery(<<>>, "Greeter", "SayHello", h, d, TRUE) : h \in HeaderDocs, d \in SearchData}

InitSearch ==
    \E n \in 1 .. MaxCandidates :
        \E vals \in [1 .. n -> UNION {SearchStubs(i) : i \in 1 .. MaxCandidates}] :
            /\ \A k \in 1 .. n : vals[k].ID = k
            /\ lefts = upsert(newStorage, vals).lefts
            /\ items = upsert(newStorage, vals).items
            /\ itemsByID = upsert(newStorage, vals).itemsByID
            /\ stubUsed = {}
            /\ toggles = {}
            /\ upserted = 1 .. n
            /\ writes = 1
            /\ usedAtClear = {}
            /\ lk = NoLocks
            /\ rd = NoRead
            /\ nx = NoCalls
            /\ rc = NoCache
            /\ res = Res("PutMany", NoQuery, "", <<>>, <<>>, vals, KeysOf(vals), 0)
            /\ bidi = NoHandle

NextSearch == Read(\E q \in SearchQueries : FindByQuery(q))

SpecSearch == InitSearch /\ [][NextSearch]_vars

----------------------------------------------------------------------------
(* Claims about selection, under SpecSearch *)

\* the stubs of the buckets a query resolves to
Candidates(query) ==
    LET r == posByPN(St, query.Service, query.Method)
    IN  IF r[1] # "" THEN {}
        ELSE UNION {{items[r[2][n]][k] : k \in DOMAIN items[r[2][n]]} : n \in DOMAIN r[2]}

Matching(query) == {c \in Candidates(query) : match(query, c)}

\* score = rank(query, stub) + priority x 10000
TotalScore(query, stub) == rankMatch(query, stub) + stub.Priority * PriorityMultiplier

\* the last call was a payload query whose (service, method) resolved
PayloadQueryDone ==
    /\ res.op = "FindByQuery"
    /\ res.query.ID = <<>>
    /\ res.err \notin {"ErrServiceNotFound", "ErrMethodNotFound"}

\* C5: a stub returned as found by a payload query matches the query, and
\* no candidate that matches the query has a strictly higher score.
C5_FoundIsBestMatch ==
    (PayloadQueryDone /\ res.found # <<>>) =>
        /\ match(res.query, res.found[1])
        /\ \A c \in Matching(res.query) :
                TotalScore(res.query, c) <= TotalScore(res.query, res.found[1])

\* C5 witness: the stub found is not the first matching candidate in id
\* order; an earlier one matches with a lower score
C5_Witness ==
    /\ PayloadQueryDone
    /\ res.found # <<>>
    /\ \E c \in Matching(res.query) :
            /\ c.ID < res.found[1].ID
            /\ TotalScore(res.query, c) < TotalScore(res.query, res.found[1])
            /\ TotalScore(res.query, c) > 0

\* C6: when two candidates of different priority both match the query, a
\* stub is chosen and it has the highest priority among the matching ones,
\* whatever the ranks and for negative priorities too.
C6_HigherPriorityChosen ==
    (PayloadQueryDone /\ \E a, b \in Matching(res.query) : a.Priority > b.Priority) =>
        /\ res.found # <<>>
        /\ \A c \in Matching(res.query) : res.found[1].Priority >= c.Priority

C8_FoundDeterministic ==
    PayloadQueryDone =>
        /\ \A r \in find(St, res.query) :
                IdsOf(r.found) = IdsOf(res.found)
        /\ res.found # <<>> =>
                \A c \in Matching(res.query) :
                    \/ TotalScore(res.query, c) < TotalScore(res.query, res.found[1])
                    \/ /\ TotalScore(res.query, c) = TotalScore(res.query, res.found[1])
                       /\ res.found[1].ID <= c.ID

\* C8 witness: the stub found shares the highest score with a matching
\* candidate of a larger id
C8_Witness ==
    /\ PayloadQueryDone
    /\ res.found # <<>>
    /\ \E c \in Matching(res.query) :
            /\ c.ID > res.found[1].ID
            /\ TotalScore(res.query, c) = TotalScore(res.query, res.found[1])

----------------------------------------------------------------------------
(* SpecUsage: usage tracking.  Stubs without predicates are written and     *)
(* deleted while queries, by payload and by id, internal and not, mark them.*)

UsageStubs ==
    {MkStub(i, s, "SayHello", p, NoHeaders, NoInput) :
        i \in Ids, s \in StubServices, p \in {0, 1}}

UsageQueries ==
    {MkQuery(qid, s, m, EmptyMap, EmptyMap, internal) :
        qid \in {<<>>} \cup {<<i>> : i \in Ids},
        s \in StubServices, m \in {"SayHello", "sayHello"}, internal \in BOOLEAN}

InitUsage == \E t \in {{}, {"MethodTitle"}} : NewBudgerigar(t)

NextUsage ==
    \/ Write(\E vals \in Singles(UsageStubs) : PutMany(vals, [n \in DOMAIN vals |-> NilID]))
    \/ Write(\E vals \in Singles(UsageStubs) : UpdateMany(vals))
    \/ Write(\E ids \in Singles(Ids) : DeleteByID(ids))
    \/ Write(Clear)
    \/ Read(\E q \in UsageQueries : FindByQuery(q))
    \/ Read(All)
    \/ Read(Used)
    \/ Read(Unused)

SpecUsage == InitUsage /\ [][NextUsage]_vars

----------------------------------------------------------------------------
(* Claims about usage, under SpecUsage *)

\* how many entries of seq carry the uuid i
CountOf(seq, i) == Cardinality({n \in DOMAIN seq : seq[n].ID = i})

\* C9: the stub a non-internal query has just returned as found is reported
\* by Used(), once, however many times it was returned before.
C9_FoundIsUsedOnce ==
    (res.op = "FindByQuery" /\ res.found # <<>> /\ ~RequestInternal(res.query)) =>
        \A seq \in used(St, stubUsed) : CountOf(seq, res.found[1].ID) = 1

\* C10: Used() and Unused() partition All(): no uuid is in both, and every
\* stub of All() is in exactly one of them.
C10_UsedUnusedPartition ==
    \A u \in used(St, stubUsed), n \in unused(St, stubUsed), a \in values(St) :
        /\ IdsOf(u) \cap IdsOf(n) = {}
        /\ Range(u) \cup Range(n) = Range(a)
        /\ \A i \in IdsOf(a) : CountOf(u, i) + CountOf(n, i) = 1
        /\ Len(u) + Len(n) = Len(a)

\* C10 witness: Unused() has just reported a live stub while another live
\* stub is used
C10_Witness ==
    /\ res.op = "Unused"
    /\ res.stubs # <<>>
    /\ stubUsed \cap DOMAIN itemsByID # {}

----------------------------------------------------------------------------
(* SpecBidi: bidirectional streaming.  One PutMany has registered up to     *)
(* MaxCandidates stubs under Greeter/SayHello; one handle is created, by    *)
(* service and method or by id, and up to MaxNext messages are sent on it.  *)

MaxNext == 3

MsgA == [k \in {"name"} |-> "a"]
MsgB == [k \in {"name"} |-> "b"]
ItemA == [NoInput EXCEPT !.Equals = MsgA]
ItemB == [NoInput EXCEPT !.Equals = MsgB]

BidiHeaders == [k \in {"authorization"} |-> "a"]

BidiStreams ==
    {<<ItemA>>, <<ItemB>>, <<ItemA, ItemB>>, <<ItemA, ItemA>>, <<ItemA, ItemB, ItemA>>,
     <<ItemA, ItemA, ItemB>>, <<NoInput>>}

BidiStubs(i) ==
    {MkStreamStub(i, "Greeter", "SayHello", p, NoInput, stream, FALSE) :
        p \in {-1, 0, 1}, stream \in BidiStreams}
    \cup {MkStreamStub(i, "Greeter", "SayHello", p, ItemA, <<>>, FALSE) : p \in {0, 1}}
    \cup {MkStreamStub(i, "Greeter", "SayHello", p, NoInput, <<>>, TRUE) : p \in {0, 1}}
    \cup {MkStreamStub(i, "Greeter", "SayHello", 1, NoInput, <<>>, FALSE)}
    \cup {MkStreamStub(i, "Greeter", "SayHello", 1, ItemA, <<ItemA>>, FALSE)}
    \cup {[MkStreamStub(i, "Greeter", "SayHello", 1, NoInput, <<ItemA>>, FALSE)
               EXCEPT !.Headers = [NoHeaders EXCEPT !.Equals = BidiHeaders]]}

Messages == {<<>>, <<EmptyMap>>, <<MsgA>>, <<MsgB>>}

BidiQueries ==
    {MkQueryBidi(qid, "Greeter", "SayHello", EmptyMap, internal) :
        qid \in {<<>>} \cup {<<i>> : i \in 1 .. MaxCandidates + 1}, internal \in BOOLEAN}
    \cup {MkQueryBidi(<<>>, "Greeter", "SayHello", BidiHeaders, FALSE)}

InternalQueries ==
    {MkQuery(qid, "Greeter", "SayHello", EmptyMap, MsgA, TRUE) : qid \in {<<>>, <<1>>}}

InitBidi ==
    \E n \in 1 .. MaxCandidates :
        \E vals \in [1 .. n -> UNION {BidiStubs(i) : i \in 1 .. MaxCandidates}] :
            /\ \A k \in 1 .. n : vals[k].ID = k
            /\ lefts = upsert(newStorage, vals).lefts
            /\ items = upsert(newStorage, vals).items
            /\ itemsByID = upsert(newStorage, vals).itemsByID
            /\ stubUsed = {}
            /\ toggles = {}
            /\ upserted = 1 .. n
            /\ writes = 1
            /\ usedAtClear = {}
            /\ lk = NoLocks
            /\ rd = NoRead
            /\ nx = NoCalls
            /\ rc = NoCache
            /\ res = Res("PutMany", NoQuery, "", <<>>, <<>>, vals, KeysOf(vals), 0)
            /\ bidi = NoHandle

NextBidi ==
    \/ ~bidi.made /\ \E q \in BidiQueries : FindByQueryBidi(q)
    \/ bidi.calls < MaxNext /\ \E m \in Messages : BidiNext(m)
    \/ ~bidi.made /\ Read(\E q \in InternalQueries : FindByQuery(q))

SpecBidi == InitBidi /\ [][NextBidi]_vars

----------------------------------------------------------------------------
(* Claims about bidirectional streaming, under SpecBidi *)

\* the last call was a Next whose message passed the checks of Next
NextHandled == res.op = "Next" /\ ~rejected(bidi, bidi.last)

\* the position of the message the last Next handled
Position == bidi.handled - 1

\* the candidates that survived the filter of the last Next and match its
\* message
MatchingCandidates ==
    {bidi.candidateStubs[n] : n \in
        {j \in DOMAIN bidi.candidateStubs :
            stubMatchesCurrentMessage(bidi, bidi.candidateStubs[j], bidi.last[1])}}

\* score of a candidate of Next, in tenths
NextScore(stub) ==
    rankMatchV2(res.query, stub) + stub.Priority * PriorityMultiplier * RankScale

\* the ids Used() reports, and the ids Unused() reports
UsedIds == stubUsed \cap DOMAIN itemsByID
UnusedIds == (DOMAIN itemsByID) \ stubUsed

\* C11: a step that is an internal query (by payload, by id, the creation
\* of a handle by an internal bidi query, or a Next on such a handle)
\* leaves what Used() and Unused() report as it was.
C11_InternalLeavesUsage ==
    [][(\/ res'.op = "FindByQuery" /\ RequestInternal(res'.query)
        \/ res'.op = "FindByQueryBidi" /\ RequestInternal(res'.query)
        \/ res'.op = "Next" /\ bidi'.internal)
       => (UsedIds' = UsedIds /\ UnusedIds' = UnusedIds)]_vars

\* C13: a client-stream stub that failed to match the message at an
\* earlier position of the handle is not returned by Next.
C13_FailedNeverReturned ==
    (res.op = "Next" /\ res.found # <<>> /\ IsClientStream(res.found[1])) =>
        res.found[1].ID \notin bidi.failedBefore

\* C14: once a Next has returned ErrStubNotFound because no candidate
\* matched its message, every later Next on the handle returns
\* ErrStubNotFound.
C14_StarvedStaysEmpty ==
    (res.op = "Next" /\ bidi.starvedBefore) => res.err = "ErrStubNotFound"

\* C15: the Next that handles the message at position k returns no
\* client-stream stub whose stream has k or fewer elements.
C15_StreamLongerThanPosition ==
    (res.op = "Next" /\ res.found # <<>> /\ IsClientStream(res.found[1])) =>
        Len(res.found[1].Stream) > Position

\* C15 witness: at position 1 Next returns a client-stream stub of two
\* elements while the handle also holds a stub of one element, with which
\* it started
C15_Witness ==
    /\ res.op = "Next"
    /\ res.found # <<>>
    /\ Position = 1
    /\ Len(res.found[1].Stream) = 2
    /\ \E n \in DOMAIN bidi.allStubs :
            IsClientStream(bidi.allStubs[n]) /\ Len(bidi.allStubs[n].Stream) = 1

\* C16: Next returns ErrStubNotFound when the message is nil or an empty
\* map, or the service or the method of the handle is empty.
C16_RejectsEmpty ==
    (res.op = "Next"
     /\ (bidi.last = <<>> \/ bidi.last = <<EmptyMap>> \/ bidi.service = "" \/ bidi.method = ""))
        => res.err = "ErrStubNotFound"

\* C17: when a surviving candidate matches the message (a document with
\* fields), Next returns the matching candidate of highest score, the one
\* of smallest id among those of that score.
C17_NextReturnsBest ==
    (NextHandled /\ bidi.last # <<EmptyMap>> /\ MatchingCandidates # {}) =>
        /\ res.found # <<>>
        /\ res.found[1] \in MatchingCandidates
        /\ \A c \in MatchingCandidates :
                \/ NextScore(c) < NextScore(res.found[1])
                \/ NextScore(c) = NextScore(res.found[1]) /\ res.found[1].ID <= c.ID

----------------------------------------------------------------------------
(* Claims about usage and queries by id, under SpecUsage *)

\* C12: the usage set holds live ids only, and Used() reports live stubs
\* only.
C12_UsageSubsetOfLive ==
    /\ stubUsed \subseteq DOMAIN itemsByID
    /\ \A seq \in used(St, stubUsed) : IdsOf(seq) \subseteq DOMAIN itemsByID

\* the last call was a unary query by id
QueryByIDDone == res.op = "FindByQuery" /\ res.query.ID # <<>>

\* C19: a unary query by id fails with the error of FindBy when its
\* (service, method) does not resolve; otherwise it returns the live stub
\* of that id as found, and unless internal has it reported by Used(); with
\* no live stub of that id it fails with ErrServiceNotFound.
C19_QueryByID ==
    QueryByIDDone =>
        LET r == findAll(St, res.query.Service, res.query.Method)
            i == res.query.ID[1]
        IN  IF r[1] # "" THEN res.err = wrap(r[1]) /\ res.found = <<>>
            ELSE IF i \in DOMAIN itemsByID
            THEN /\ res.err = ""
                 /\ res.found = <<itemsByID[i]>>
                 /\ ~RequestInternal(res.query) =>
                        \A seq \in used(St, stubUsed) : CountOf(seq, i) = 1
            ELSE res.err = "ErrServiceNotFound" /\ res.found = <<>>

\* C19 witness: of two live stubs, a query by id that is not internal has
\* returned one, the only one used
C19_Witness ==
    /\ QueryByIDDone
    /\ ~RequestInternal(res.query)
    /\ res.found # <<>>
    /\ Cardinality(DOMAIN itemsByID) = 2
    /\ stubUsed = {res.query.ID[1]}

\* C20: the stub a query by id returns is registered under the service and
\* method of the query, or under the suffix form of its service.
C20_ByIDWithinNamespace ==
    (QueryByIDDone /\ res.found # <<>>) =>
        /\ res.found[1].Method = res.query.Method
        /\ \/ res.found[1].Service = res.query.Service
           \/ /\ HasDot(res.query.Service)
              /\ res.found[1].Service = truncatedLeft(res.query.Service)

----------------------------------------------------------------------------
(* Claims about the errors and results of the facade, under Spec *)

\* the service name has been the left name of an upsert since the last clear
Known(service) == id(service) \in lefts

\* the index holds a bucket for (service, method)
HasBucket(service, method) == pos(id(service), id(method)) \in DOMAIN items

\* the forms of a service name FindBy resolves: the name itself and, for a
\* dotted name, its suffix after the last dot
Forms(service) ==
    {service} \cup (IF HasDot(service) THEN {truncatedLeft(service)} ELSE {})

FindByDone == res.op = "FindBy"

\* C21: FindBy(service, method) fails with ErrServiceNotFound when neither
\* the service nor its suffix is known, with ErrMethodNotFound when one of
\* them is known but the method has no bucket under either, and succeeds
\* otherwise.
C21_ErrorLadder ==
    FindByDone =>
        LET s == res.query.Service
            m == res.query.Method
        IN  IF \A f \in Forms(s) : ~Known(f)
            THEN res.err = "ErrServiceNotFound" /\ res.stubs = <<>>
            ELSE IF \A f \in Forms(s) : ~HasBucket(f, m)
            THEN res.err = "ErrMethodNotFound" /\ res.stubs = <<>>
            ELSE res.err = "" /\ res.stubs # <<>>

\* C21 witness: FindBy of a dotted service that is known, whose suffix is
\* not, for a method without a bucket, has failed with ErrMethodNotFound
C21_Witness ==
    /\ FindByDone
    /\ HasDot(res.query.Service)
    /\ Known(res.query.Service)
    /\ ~Known(truncatedLeft(res.query.Service))
    /\ ~HasBucket(res.query.Service, res.query.Method)
    /\ res.err = "ErrMethodNotFound"

\* the ids of the entries the index keeps under (service, method)
EntriesOf(service, method) ==
    IF HasBucket(service, method)
    THEN DOMAIN items[pos(id(service), id(method))] ELSE {}

\* every stub that was put under (service, method) or under its suffix form
\* has been deleted by id: none is registered there, and no id the index
\* has an entry for there is live
AllDeleted(service, method) ==
    /\ Registered(service, method) = {}
    /\ \A f \in Forms(service) : EntriesOf(f, method) \cap upserted = {}

\* C22: after every stub of a (service, method) pair has been deleted by
\* id, FindBy on that pair fails with ErrMethodNotFound, also when the
\* service has no stub left at all.
C22_EmptiedPairMethodNotFound ==
    \A s \in StubServices, m \in StubMethods :
        (Known(s) /\ AllDeleted(s, m)) =>
            wrap(findAll(St, s, m)[1]) = "ErrMethodNotFound"

\* the step is a call of DeleteByID
DeleteStep == writes' = writes + 1 /\ res'.op = "DeleteByID"

\* the given ids that are live before the call
LiveGiven == Range(res'.ids) \cap DOMAIN itemsByID

\* what DeleteByID returns and what it does to the set of live stubs: the
\* number of given ids that were live, those and only those gone from the
\* set, and nothing changed when none was live
DeleteCounts ==
    DeleteStep =>
        /\ res'.n = Cardinality(LiveGiven)
        /\ itemsByID' = [i \in (DOMAIN itemsByID) \ LiveGiven |-> itemsByID[i]]
        /\ LiveGiven = {} => UNCHANGED <<lefts, items, itemsByID, stubUsed>>

\* C23: DeleteByID(ids...) returns the number of given ids that were live
\* and removes exactly those stubs, so that no read returns them any more;
\* ids that are not live contribute 0 and leave the registry unchanged.
C23_DeleteRemovesLive ==
    [][/\ DeleteCounts
       /\ DeleteStep =>
            \A i \in LiveGiven :
                /\ findByID(St, i)' = <<>>
                /\ \A s \in QueryServices, m \in StubMethods :
                        ~FindByReturns(s, m, i)']_vars

\* the returned number and the set of live stubs alone
DeleteCountsLive == [][DeleteCounts]_vars

----------------------------------------------------------------------------
(* Claims about Clear, under SpecUsage *)

\* the registry is empty: All(), Used() and Unused() return nothing and
\* FindBy fails with ErrServiceNotFound for every service and method
RegistryEmpty ==
    /\ values(St) = {<<>>}
    /\ used(St, stubUsed) = {<<>>}
    /\ unused(St, stubUsed) = {<<>>}
    /\ \A s \in QueryServices, m \in QueryMethods :
            wrap(findAll(St, s, m)[1]) = "ErrServiceNotFound"

\* the step is the first upsert since the registry was cleared (or made)
UpsertAfterClear ==
    /\ lefts = {}
    /\ writes' = writes + 1
    /\ res'.op \in {"PutMany", "UpdateMany"}

\* C24: after Clear() the registry is empty (All(), Used() and Unused()
\* return nothing, FindBy fails with ErrServiceNotFound for every service),
\* and a stub upserted afterwards is unused, even if a stub with the same
\* id had been marked used before the clear.
C24_ClearEmpties ==
    [][/\ res'.op = "Clear" => RegistryEmpty'
       /\ UpsertAfterClear =>
            \A i \in Range(res'.ids) :
                /\ \A seq \in used(St, stubUsed)' : i \notin IdsOf(seq)
                /\ \A seq \in unused(St, stubUsed)' : i \in IdsOf(seq)]_vars

\* C24 witness: a stub was put and marked used, the registry was cleared,
\* and a stub with the same id has been put again
C24_Witness ==
    /\ res.op = "PutMany"
    /\ writes = 3
    /\ res.ids[1] \in usedAtClear
    /\ DOMAIN itemsByID = {res.ids[1]}

----------------------------------------------------------------------------
(* Claims about PutMany, under Spec *)

\* the step is a call of PutMany
PutStep == writes' = writes + 1 /\ res'.op = "PutMany"

\* C25: PutMany returns one id per input stub in input order; a stub
\* supplied with a zero id is given a fresh non-zero id, different from
\* every id in the registry and from every other id of the batch, and is
\* stored under it; a stub supplied with a non-zero id keeps it.
C25_PutManyIds ==
    [][PutStep =>
        LET given == res'.stubs
            ids == res'.ids
        IN  /\ Len(ids) = Len(given)
            /\ \A n \in DOMAIN given :
                    IF given[n].ID = NilID
                    THEN /\ ids[n] # NilID
                         /\ ids[n] \notin DOMAIN itemsByID
                         /\ \A k \in (DOMAIN given) \ {n} : ids[k] # ids[n]
                         /\ ids[n] \in DOMAIN itemsByID'
                         /\ itemsByID'[ids[n]] = [given[n] EXCEPT !.ID = ids[n]]
                    ELSE /\ ids[n] = given[n].ID
                         /\ ids[n] \in DOMAIN itemsByID']_vars

\* C25 witness: with one stub live, PutMany of a stub without id followed
\* by a stub with an id has returned two different ids
C25_Witness ==
    /\ res.op = "PutMany"
    /\ writes = 2
    /\ Len(res.stubs) = 2
    /\ res.stubs[1].ID = NilID
    /\ res.stubs[2].ID # NilID
    /\ res.ids[1] # res.ids[2]
    /\ Cardinality(DOMAIN itemsByID) = 2

----------------------------------------------------------------------------
(* SpecSorted: the order of FindBy.  One PutMany of up to MaxId + 1 stubs   *)
(* of one method, under the dotted and the plain service name, with        *)
(* priorities over the whole range of int; then FindBy reads.              *)

SortedPriorities == {MinInt, -2, 0, 1, MaxInt}

SortedStubs(i) ==
    {MkStub(i, s, "SayHello", p, NoHeaders, NoInput) :
        s \in StubServices, p \in SortedPriorities}

InitSorted ==
    \E n \in 1 .. MaxId + 1 :
        \E vals \in [1 .. n -> UNION {SortedStubs(i) : i \in 1 .. MaxId + 1}] :
            /\ \A k \in 1 .. n : vals[k].ID = k
            /\ lefts = upsert(newStorage, vals).lefts
            /\ items = upsert(newStorage, vals).items
            /\ itemsByID = upsert(newStorage, vals).itemsByID
            /\ stubUsed = {}
            /\ toggles = {}
            /\ upserted = 1 .. n
            /\ writes = 1
            /\ usedAtClear = {}
            /\ lk = NoLocks
            /\ rd = NoRead
            /\ nx = NoCalls
            /\ rc = NoCache
            /\ res = Res("PutMany", NoQuery, "", <<>>, <<>>, vals, KeysOf(vals), 0)
            /\ bidi = NoHandle

NextSorted == Read(\E s \in QueryServices, m \in StubMethods : FindBy(s, m))

SpecSorted == InitSorted /\ [][NextSorted]_vars

\* C26: FindBy(service, method) returns its stubs in order of descending
\* priority, also when the result is the union of a fully-qualified bucket
\* and a suffix bucket.
C26_FindByDescending ==
    (FindByDone /\ res.err = "") =>
        \A a, b \in DOMAIN res.stubs :
            a < b => res.stubs[a].Priority >= res.stubs[b].Priority

----------------------------------------------------------------------------
(* SpecConc: FindBy while writes go on.  storage.upsert, storage.del and   *)
(* searcher.clear hold the write lock from beginning to end, so each is    *)
(* one step.  FindBy takes the read lock three times: in posByN for the    *)
(* whole name, in posByN for the suffix, and in yieldSortedValues; a write *)
(* can come between any two of them.                                       *)

ConcStubs ==
    {MkStub(i, s, "SayHello", 0, NoHeaders, NoInput) : i \in Ids, s \in StubServices}

FindByQueryOf(service, method) ==
    MkQuery(<<>>, service, method, EmptyMap, EmptyMap, TRUE)

\* FindBy returns the error of posByPN
FindByFails(err) ==
    /\ res' = Res("FindBy", FindByQueryOf(rd'.left, rd'.right), wrap(err),
                  <<>>, <<>>, <<>>, <<>>, 0)

\* FindBy, first part: posByPN calls posByN for the whole left name
FindByBegin(service, method) ==
    LET full == posByN(St, service, method)
        began == [pc |-> "idle", left |-> service, right |-> method, full |-> full,
                  indexes |-> <<>>, seen |-> {St}]
        r == posByPNOf(full, full, service)
    IN  /\ rd.pc = "idle"
        /\ IF HasDot(service)
           THEN rd' = [began EXCEPT !.pc = "trunc"] /\ UNCHANGED res
           ELSE IF r[1] # ""
           THEN rd' = began /\ FindByFails(r[1])
           ELSE rd' = [began EXCEPT !.pc = "yield", !.indexes = r[2]] /\ UNCHANGED res
        /\ UNCHANGED <<lefts, items, itemsByID, stubUsed, toggles, upserted, writes,
                       usedAtClear, lk, nx, rc, bidi>>

\* FindBy, second part: posByPN calls posByN for the suffix and returns
FindByTrunc ==
    LET trunc == posByN(St, truncatedLeft(rd.left), rd.right)
        r == posByPNOf(rd.full, trunc, rd.left)
    IN  /\ rd.pc = "trunc"
        /\ IF r[1] # ""
           THEN rd' = [rd EXCEPT !.pc = "idle"] /\ FindByFails(r[1])
           ELSE rd' = [rd EXCEPT !.pc = "yield", !.indexes = r[2]] /\ UNCHANGED res
        /\ UNCHANGED <<lefts, items, itemsByID, stubUsed, toggles, upserted, writes,
                       usedAtClear, lk, nx, rc, bidi>>

\* FindBy, third part: collectStubs runs yieldSortedValues over the
\* resolved indexes
FindByYield ==
    /\ rd.pc = "yield"
    /\ rd' = [rd EXCEPT !.pc = "idle"]
    /\ \E seq \in yieldSortedValues(St, rd.indexes) :
            res' = Res("FindBy", FindByQueryOf(rd.left, rd.right), "",
                       <<>>, <<>>, seq, <<>>, 0)
    /\ UNCHANGED <<lefts, items, itemsByID, stubUsed, toggles, upserted, writes,
                   usedAtClear, lk, nx, rc, bidi>>

InitConc == NewBudgerigar({})

NextConc ==
    \/ Write(\E vals \in Singles(ConcStubs) \cup Pairs(ConcStubs) :
                PutMany(vals, [n \in DOMAIN vals |-> NilID]))
    \/ Write(\E ids \in Singles(Ids) : DeleteByID(ids))
    \/ Write(Clear)
    \/ \E s \in QueryServices : FindByBegin(s, "SayHello")
    \/ FindByTrunc
    \/ FindByYield

SpecConc == InitConc /\ [][NextConc]_vars

\* a call of FindBy has returned
FindByReturned == res.op = "FindBy" /\ rd.pc = "idle" /\ rd.seen # {}

\* what FindBy returned is what it returns from the storage st
ReturnedFrom(st) ==
    LET r == findAll(st, rd.left, rd.right)
    IN  IF r[1] # "" THEN res.err = wrap(r[1])
        ELSE res.err = "" /\ res.stubs \in r[2]

\* C27: a read that runs while writes go on observes the registry
\* entirely before or entirely after each write: what FindBy returns is
\* what it returns from the registry as it was when the call began or as
\* it was after one of the writes made during the call, never from a
\* partially applied batch.
C27_ReadsSeeWholeWrites ==
    FindByReturned => \E st \in rd.seen : ReturnedFrom(st)

----------------------------------------------------------------------------
(* SpecHandles: goroutines calling Next on shared handles.  Next holds     *)
(* br.mu from its first statement to its return, so a call is: blocked in  *)
(* Lock; then, with the lock, the checks and the candidate filter; then    *)
(* the selection, markV2 and the return, which unlocks.                    *)

HandleStreams == {<<ItemA>>, <<ItemA, ItemB>>, <<ItemA, ItemA>>}

HandleStubs(i) ==
    {MkStreamStub(i, "Greeter", "SayHello", 1, NoInput, stream, FALSE) :
        stream \in HandleStreams}
    \cup {MkStreamStub(i, "Greeter", "SayHello", 0, NoInput, <<ItemA>>, FALSE)}

HandleMessages == {<<>>, <<MsgA>>, <<MsgB>>}

HandleQuery == MkQueryBidi(<<>>, "Greeter", "SayHello", EmptyMap, FALSE)

InitHandles ==
    \E n \in 1 .. MaxCandidates :
        \E vals \in [1 .. n -> UNION {HandleStubs(i) : i \in 1 .. MaxCandidates}] :
            /\ \A k \in 1 .. n : vals[k].ID = k
            /\ lefts = upsert(newStorage, vals).lefts
            /\ items = upsert(newStorage, vals).items
            /\ itemsByID = upsert(newStorage, vals).itemsByID
            /\ stubUsed = {}
            /\ toggles = {}
            /\ upserted = 1 .. n
            /\ writes = 1
            /\ usedAtClear = {}
            /\ lk = NoLocks
            /\ rd = NoRead
            /\ nx = NoCalls
            /\ rc = NoCache
            /\ res = Res("PutMany", NoQuery, "", <<>>, <<>>, vals, KeysOf(vals), 0)
            /\ bidi = NoHandle

\* FindByQueryBidi whose handle becomes handle h
MakeHandle(h, query) ==
    /\ ~nx.handles[h].made
    /\ \E r \in findBidi(St, query) :
            /\ r.err = ""
            /\ nx' = [nx EXCEPT !.handles[h] = r.br]
            /\ res' = Res("FindByQueryBidi", query, r.err, <<>>, <<>>, r.br.allStubs, <<>>, 0)
    /\ UNCHANGED <<lefts, items, itemsByID, stubUsed, toggles, upserted, writes,
                   usedAtClear, lk, rd, rc, bidi>>

\* a caller is inside a call of Next on handle h
Calling(c, h) == nx.callers[c].pc # "idle" /\ nx.callers[c].handle = h

\* goroutine c calls Next(message) on handle h and blocks in br.mu.Lock()
NextCall(c, h, message) ==
    /\ nx.callers[c].pc = "idle"
    /\ nx.handles[h].made
    /\ nx.calls < MaxNext
    /\ nx' = [nx EXCEPT
                !.calls = @ + 1,
                !.callers[c] = [NoCall EXCEPT
                    !.pc = "wait", !.handle = h, !.message = message,
                    !.overlapped = \E d \in Callers \ {c} : Calling(d, h)]]
    /\ UNCHANGED <<lefts, items, itemsByID, stubUsed, toggles, upserted, writes,
                   usedAtClear, lk, rd, rc, res, bidi>>

\* br.mu.Lock() that never waits
lockFree_always(h) == TRUE

\* br.mu.Lock() returns when no goroutine holds the lock of handle h
lockFree(h) == nx.lock[h] = 0

\* Next returns stub (<<>> is ErrStubNotFound) and leaves the handle as
\* br; the deferred Unlock runs
NextReturns(c, call, br, stub) ==
    LET query == MkQueryV2(br.service, br.method, br.headers, call.message)
    IN  /\ nx' = [nx EXCEPT
                    !.handles[call.handle] = br,
                    !.lock[call.handle] = 0,
                    !.callers[c] = [call EXCEPT !.pc = "idle", !.result = stub,
                                                !.after = br, !.returned = TRUE]]
        /\ res' = Res("Next", query, IF stub = <<>> THEN "ErrStubNotFound" ELSE "",
                      stub, <<>>, <<>>, <<>>, 0)
        /\ stubUsed' = IF stub # <<>> THEN markV2(stubUsed, query, stub[1].ID)
                       ELSE stubUsed

\* Next, first part: the lock, the checks and the candidate filter.  The
\* history field expect keeps what Next, run alone on the handle as it is
\* when the lock is taken, can end with.
NextEnter(c) ==
    LET h == nx.callers[c].handle
        br == nx.handles[h]
        call == [nx.callers[c] EXCEPT !.expect = next(br, nx.callers[c].message)]
        b == filterCandidates(br)
    IN  /\ nx.callers[c].pc = "wait"
        /\ lockFree(h)
        /\ IF rejected(br, call.message)
           THEN NextReturns(c, call, br, <<>>)
           ELSE IF Len(b.candidateStubs) = 0
           THEN NextReturns(c, call, b, <<>>)
           ELSE /\ nx' = [nx EXCEPT
                            !.handles[h] = b,
                            !.lock[h] = c,
                            !.callers[c] = [call EXCEPT !.pc = "pick"]]
                /\ UNCHANGED <<res, stubUsed>>
        /\ UNCHANGED <<lefts, items, itemsByID, toggles, upserted, writes,
                       usedAtClear, lk, rd, rc, bidi>>

\* Next, second part: the selection loop, the tie sort, markV2, the return
NextPick(c) ==
    LET call == nx.callers[c]
        br == nx.handles[call.handle]
        query == MkQueryV2(br.service, br.method, br.headers, call.message)
    IN  /\ nx.callers[c].pc = "pick"
        /\ \E best \in bestPick(bestWalk(NoBest, br, br.candidateStubs, query,
                                          call.message[1])) :
                NextReturns(c, call, br, best)
        /\ UNCHANGED <<lefts, items, itemsByID, toggles, upserted, writes,
                       usedAtClear, lk, rd, rc, bidi>>

NextHandles ==
    \/ \E h \in Handles : MakeHandle(h, HandleQuery)
    \/ \E c \in Callers, h \in Handles, m \in HandleMessages : NextCall(c, h, m)
    \/ \E c \in Callers : NextEnter(c)
    \/ \E c \in Callers : NextPick(c)

SpecHandles == InitHandles /\ [][NextHandles]_vars

\* goroutine c takes a step
StepOf(c) == nx'.callers[c] # nx.callers[c]

\* C28: Next calls on one handle are serialised: every call returns, and
\* leaves the handle, as Next run alone does on the handle as the call
\* found it when it got the lock (so the message index advances once per
\* call after the first), and the index and candidates of a handle change
\* only in steps of the goroutine that holds its lock, never through a
\* call on another handle.
C28_NextSerialised ==
    [][/\ \A c \in Callers :
            nx'.callers[c].returned =>
                [br |-> nx'.callers[c].after, stub |-> nx'.callers[c].result]
                    \in nx'.callers[c].expect
       /\ \A h \in Handles :
            (nx.handles[h].made /\ nx'.handles[h] # nx.handles[h]) =>
                \E c \in Callers :
                    /\ StepOf(c)
                    /\ nx.callers[c].handle = h
                    /\ \A d \in Callers \ {c} : nx.callers[d].pc # "pick" \/
                                                  nx.callers[d].handle # h]_vars

\* C28 witness: a call of Next that began while another goroutine was
\* inside Next on the same handle has returned a stub, as the second
\* message handled by the handle, and the other handle is made and untouched
C28_Witness ==
    \E c \in Callers :
        /\ nx.callers[c].returned
        /\ nx.callers[c].overlapped
        /\ nx.callers[c].result # <<>>
        /\ nx.callers[c].after.messageIndex = 1
        /\ \E h \in Handles \ {nx.callers[c].handle} :
                nx.handles[h].made /\ nx.handles[h].isFirstCall

----------------------------------------------------------------------------
(* SpecCache: the regex cache.  getRegex is regexCache.Get and, after a    *)
(* miss and a successful regexp.Compile, regexCache.Add; the cache takes   *)
(* its own lock in each of the two, so a call of getRegex is up to two     *)
(* steps, and the calls of two goroutines interleave.                      *)

Patterns == {"a", "b", "c", "d", "("}

\* regexp.Compile(pattern) returns no error
compiles(pattern) == pattern # "("

\* s with p moved (or put) in front
Touch(s, p) == <<p>> \o SelectSeq(s, LAMBDA q : q # p)

\* lru.Cache.Get: <<found, entries afterwards>>; a hit makes the key the
\* most recently used
lruGet(entries, key) ==
    IF key \in Range(entries) THEN <<TRUE, Touch(entries, key)>> ELSE <<FALSE, entries>>

\* lru.Cache.Add on a cache of the given size: the key becomes the most
\* recently used, and the least recently used entry goes when the cache
\* would hold more than size entries
lruAdd(entries, key, size) ==
    LET pushed == Touch(entries, key)
    IN  IF Len(pushed) > size THEN SubSeq(pushed, 1, size) ELSE pushed

\* getRegex finds the pattern with a lookup that leaves its recency alone
GetRegexBegin_peeks(g, pattern) ==
    /\ rc.pc[g] = "idle"
    /\ IF pattern \in Range(rc.entries)
       THEN /\ rc' = [rc EXCEPT !.uses = Touch(@, pattern), !.evicted = {}]
            /\ res' = Res("getRegex", NoQuery, "", <<>>, <<>>, <<>>, <<>>, 0)
       ELSE IF ~compiles(pattern)
       THEN /\ rc' = [rc EXCEPT !.evicted = {}]
            /\ res' = Res("getRegex", NoQuery, "error", <<>>, <<>>, <<>>, <<>>, 0)
       ELSE /\ rc' = [rc EXCEPT !.pc[g] = "add", !.pattern[g] = pattern, !.evicted = {}]
            /\ UNCHANGED res
    /\ UNCHANGED <<lefts, items, itemsByID, stubUsed, toggles, upserted, writes,
                   usedAtClear, lk, rd, nx, bidi>>

\* getRegex, first part: regexCache.Get, and regexp.Compile after a miss
GetRegexBegin(g, pattern) ==
    LET got == lruGet(rc.entries, pattern)
    IN  /\ rc.pc[g] = "idle"
        /\ IF got[1]
           THEN /\ rc' = [rc EXCEPT !.entries = got[2], !.uses = Touch(@, pattern),
                                    !.evicted = {}]
                /\ res' = Res("getRegex", NoQuery, "", <<>>, <<>>, <<>>, <<>>, 0)
           ELSE IF ~compiles(pattern)
           THEN /\ rc' = [rc EXCEPT !.evicted = {}]
                /\ res' = Res("getRegex", NoQuery, "error", <<>>, <<>>, <<>>, <<>>, 0)
           ELSE /\ rc' = [rc EXCEPT !.pc[g] = "add", !.pattern[g] = pattern,
                                    !.evicted = {}]
                /\ UNCHANGED res
        /\ UNCHANGED <<lefts, items, itemsByID, stubUsed, toggles, upserted, writes,
                       usedAtClear, lk, rd, nx, bidi>>

\* getRegex, second part: regexCache.Add(pattern, re), and the return
GetRegexAdd(g) ==
    LET added == lruAdd(rc.entries, rc.pattern[g], MaxCache)
    IN  /\ rc.pc[g] = "add"
        /\ rc' = [rc EXCEPT !.entries = added, !.pc[g] = "idle", !.pattern[g] = "",
                            !.uses = Touch(@, rc.pattern[g]),
                            !.evicted = Range(rc.entries) \ Range(added)]
        /\ res' = Res("getRegex", NoQuery, "", <<>>, <<>>, <<>>, <<>>, 0)
        /\ UNCHANGED <<lefts, items, itemsByID, stubUsed, toggles, upserted, writes,
                       usedAtClear, lk, rd, nx, bidi>>

InitCache == NewBudgerigar({})

NextCache ==
    \/ \E g \in Lookers, p \in Patterns : GetRegexBegin(g, p)
    \/ \E g \in Lookers : GetRegexAdd(g)

SpecCache == InitCache /\ [][NextCache]_vars

\* the place of pattern p in the history of uses (1 is the latest)
UsePlace(p) == CHOOSE n \in DOMAIN rc.uses : rc.uses[n] = p

\* the cached pattern whose last use is the oldest
LeastRecentlyUsed ==
    CHOOSE p \in Range(rc.entries) :
        \A q \in Range(rc.entries) : UsePlace(q) <= UsePlace(p)

\* C29: the regex cache never holds more entries than its capacity, after
\* any sequence of lookups of one goroutine or of several; when it is
\* full, adding a new pattern evicts the least recently used one, and
\* nothing else is ever evicted.
C29_CacheBounded ==
    [][/\ Len(rc'.entries) <= MaxCache
       /\ Cardinality(Range(rc'.entries)) = Len(rc'.entries)
       /\ LET gone == Range(rc.entries) \ Range(rc'.entries)
              new == Range(rc'.entries) \ Range(rc.entries)
          IN  /\ gone # {} => /\ Len(rc.entries) = MaxCache
                              /\ new # {}
                              /\ gone = {LeastRecentlyUsed}
              /\ (new # {} /\ Len(rc.entries) = MaxCache) => gone # {}]_vars

\* C29 witness: with the cache full, a goroutine has added a new pattern
\* and the least recently used pattern is gone, while the other goroutine
\* is between its miss and its Add
C29_Witness ==
    /\ Len(rc.entries) = MaxCache
    /\ rc.evicted # {}
    /\ \E g \in Lookers : rc.pc[g] = "add"

----------------------------------------------------------------------------
(* SpecV2: stream queries.  One PutMany has registered up to MaxCandidates  *)
(* unary and client-stream stubs under Greeter/SayHello; QueryV2 requests   *)
(* of up to MaxStream messages are then looked up.  A run-time panic of the *)
(* lookup (an index out of range) is reported as the error "panic".         *)

MaxStream == 3

\* the loop body of matchStreamElements: the stub item has matchers and all
\* of them accept the query item
streamItemMatches(stubItem, queryItem) ==
    /\ HasMatchers(stubItem)
    /\ Len0(stubItem.Equals) > 0 =>
           equals(stubItem.Equals, queryItem, stubItem.IgnoreArrayOrder)
    /\ Len0(stubItem.Contains) > 0 =>
           contains(stubItem.Contains, queryItem, stubItem.IgnoreArrayOrder)
    /\ Len0(stubItem.Matches) > 0 =>
           matches(stubItem.Matches, queryItem, stubItem.IgnoreArrayOrder)

\* the body of the single-message loop of matchStreamElements: the stub item
\* has a matcher that accepts the query item
streamItemMatchesAny(stubItem, queryItem) ==
    /\ HasMatchers(stubItem)
    /\ \/ Len0(stubItem.Equals) > 0
          /\ equals(stubItem.Equals, queryItem, stubItem.IgnoreArrayOrder)
       \/ Len0(stubItem.Contains) > 0
          /\ contains(stubItem.Contains, queryItem, stubItem.IgnoreArrayOrder)
       \/ Len0(stubItem.Matches) > 0
          /\ matches(stubItem.Matches, queryItem, stubItem.IgnoreArrayOrder)

\* matchStreamElements: "true", "false", or "panic" when the loop reads
\* stubStream[i] beyond the end of the stub's stream
matchStreamElements(queryStream, stubStream) ==
    LET n == Len(queryStream)
        effectiveQueryLength ==
            IF n > 0 /\ Len0(queryStream[n]) = 0 THEN n - 1 ELSE n
        stops == {i \in 1 .. effectiveQueryLength :
                    \/ i > Len(stubStream)
                    \/ ~streamItemMatches(stubStream[i], queryStream[i])}
        first == CHOOSE i \in stops : \A j \in stops : i <= j
    IN  IF effectiveQueryLength = 1 /\ Len(stubStream) > 1
        THEN IF \E k \in DOMAIN stubStream :
                    streamItemMatchesAny(stubStream[k], queryStream[1])
             THEN "true" ELSE "false"
        ELSE IF effectiveQueryLength = 0 /\ Len(stubStream) > 0 THEN "false"
        ELSE IF stops = {} THEN "true"
        ELSE IF first > Len(stubStream) THEN "panic"
        ELSE "false"

\* matchV2
matchV2(query, stub) ==
    IF ~matchHeaders(query.Headers, stub.Headers) THEN "false"
    ELSE IF Len(stub.Stream) > 0 THEN matchStreamElements(query.Input, stub.Stream)
    ELSE IF Len(query.Input) = 1
    THEN IF matchInput(query.Input[1], stub.Input) THEN "true" ELSE "false"
    ELSE "false"

\* the loop body of searchCommon with the functions of searchV2, ranks in
\* tenths; a panic of matchFunc ends the call
searchStepV2(acc, stub, query) ==
    LET current == rankMatchV2(query, stub)
        priorityBonus == stub.Priority * PriorityMultiplier * RankScale
        totalRank == current + priorityBonus
        a1 == IF totalRank > acc.similarRank
              THEN [acc EXCEPT !.similar = <<stub>>, !.similarRank = totalRank]
              ELSE acc
        matched == matchV2(query, stub)
    IN  IF acc.panicked THEN acc
        ELSE IF matched = "panic" THEN [a1 EXCEPT !.panicked = TRUE]
        ELSE IF matched = "true" /\ totalRank > a1.foundRank
        THEN [a1 EXCEPT !.found = <<stub>>, !.foundRank = totalRank]
        ELSE a1

\* the walk of searchCommon over the sorted stubs, for searchV2
RECURSIVE searchWalkV2(_, _, _)
searchWalkV2(acc, stubs, query) ==
    IF stubs = <<>> THEN acc
    ELSE searchWalkV2(searchStepV2(acc, Head(stubs), query), Tail(stubs), query)

searchStartV2 ==
    [found |-> <<>>, foundRank |-> 0, similar |-> <<>>, similarRank |-> 0,
     panicked |-> FALSE]

\* searcher.searchV2 / searchCommon: every outcome of the call
searchV2(st, query) ==
    LET r == findAll(st, query.Service, query.Method)
        outcome(acc) ==
            IF acc.panicked THEN [err |-> "panic", found |-> <<>>, similar |-> <<>>]
            ELSE searchResult(acc)
    IN  IF r[1] # "" THEN {[err |-> wrap(r[1]), found |-> <<>>, similar |-> <<>>]}
        ELSE {outcome(searchWalkV2(searchStartV2, sorted, query)) :
                sorted \in UNION {sortStubsByID(seq) : seq \in r[2]}}

\* searcher.searchByIDV2
searchByIDV2(st, query) == searchByID(st, query)

\* searcher.findV2
findV2(st, query) ==
    IF query.ID # <<>> THEN searchByIDV2(st, query) ELSE searchV2(st, query)

\* Budgerigar.FindByQueryV2: the call of searcher.findV2, and markV2 on the
\* stub found
FindByQueryV2(query) ==
    /\ \E r \in findV2(St, query) :
            /\ res' = Res("FindByQueryV2", query, r.err, r.found, r.similar, <<>>, <<>>, 0)
            /\ stubUsed' = IF r.found # <<>> THEN mark(stubUsed, query, r.found[1].ID)
                           ELSE stubUsed
    /\ UNCHANGED <<lefts, items, itemsByID, toggles, upserted>>

V2Streams == {<<ItemA>>, <<ItemB>>, <<ItemA, ItemB>>, <<NoInput>>}

V2Stubs(i) ==
    {MkStreamStub(i, "Greeter", "SayHello", p, NoInput, stream, FALSE) :
        p \in {0, 1}, stream \in V2Streams}
    \cup {MkStreamStub(i, "Greeter", "SayHello", p, ItemA, <<>>, FALSE) : p \in {0, 1}}

V2Inputs == UNION {[1 .. n -> {EmptyMap, MsgA, MsgB}] : n \in 0 .. MaxStream}

V2Queries ==
    {MkQueryV2("Greeter", "SayHello", EmptyMap, input) : input \in V2Inputs}
    \cup {[MkQueryV2("Greeter", "SayHello", EmptyMap, <<MsgA>>) EXCEPT !.ID = <<1>>]}

InitV2 ==
    \E n \in 1 .. MaxCandidates :
        \E vals \in [1 .. n -> UNION {V2Stubs(i) : i \in 1 .. MaxCandidates}] :
            /\ \A k \in 1 .. n : vals[k].ID = k
            /\ lefts = upsert(newStorage, vals).lefts
            /\ items = upsert(newStorage, vals).items
            /\ itemsByID = upsert(newStorage, vals).itemsByID
            /\ stubUsed = {}
            /\ toggles = {}
            /\ upserted = 1 .. n
            /\ writes = 1
            /\ usedAtClear = {}
            /\ lk = NoLocks
            /\ rd = NoRead
            /\ nx = NoCalls
            /\ rc = NoCache
            /\ res = Res("PutMany", NoQuery, "", <<>>, <<>>, vals, KeysOf(vals), 0)
            /\ bidi = NoHandle

NextV2 == Read(\E q \in V2Queries : FindByQueryV2(q))

SpecV2 == InitV2 /\ [][NextV2]_vars

----------------------------------------------------------------------------
(* Claims about stream queries, under SpecV2 *)

\* C30: no query crashes, whatever the data: a stream request looked up
\* against stubs whose streams are shorter than the request, or of any
\* other length, ends with a result or an error value, never with a panic
C30_NoQueryPanics ==
    res.op = "FindByQueryV2" => res.err # "panic"

----------------------------------------------------------------------------
(* SpecKeys: names whose hashes agree in the low 32 bits.  One PutMany has  *)
(* registered up to MaxCandidates stubs, each under its own id, and FindBy  *)
(* is called for every service and method.                                  *)

KeyServices == {"svc3487", "svc84267", "Greeter"}

KeyStubs(i) ==
    {MkStub(i, s, m, p, NoHeaders, NoInput) :
        s \in KeyServices, m \in StubMethods, p \in {0, 1}}

InitKeys ==
    \E n \in 1 .. MaxCandidates :
        \E vals \in [1 .. n -> UNION {KeyStubs(i) : i \in 1 .. MaxCandidates}] :
            /\ \A k \in 1 .. n : vals[k].ID = k
            /\ lefts = upsert(newStorage, vals).lefts
            /\ items = upsert(newStorage, vals).items
            /\ itemsByID = upsert(newStorage, vals).itemsByID
            /\ stubUsed = {}
            /\ toggles = {}
            /\ upserted = 1 .. n
            /\ writes = 1
            /\ usedAtClear = {}
            /\ lk = NoLocks
            /\ rd = NoRead
            /\ nx = NoCalls
            /\ rc = NoCache
            /\ res = Res("PutMany", NoQuery, "", <<>>, <<>>, vals, KeysOf(vals), 0)
            /\ bidi = NoHandle

NextKeys ==
    Read(\E s \in KeyServices \cup {"Missing"}, m \in StubMethods : FindBy(s, m))

SpecKeys == InitKeys /\ [][NextKeys]_vars

\* the services some registered stub names
RegisteredServices == {itemsByID[i].Service : i \in DOMAIN itemsByID}

\* C31: index keys are collision-free: FindBy of a service that no stub was
\* registered under fails with ErrServiceNotFound, and the stubs a FindBy
\* returns all carry the service and the method that were asked for, so
\* stubs of different (service, method) pairs never share a bucket
C31_KeysCollisionFree ==
    FindByDone =>
        /\ Forms(res.query.Service) \cap RegisteredServices = {}
               => res.err = "ErrServiceNotFound"
        /\ \A n \in DOMAIN res.stubs :
               /\ res.stubs[n].Service \in Forms(res.query.Service)
               /\ res.stubs[n].Method = res.query.Method

----------------------------------------------------------------------------
(* More claims about stream queries, under SpecV2 *)

\* effectiveQueryLength of matchStreamElements and rankStreamElements: the
\* length of the request, less one for a trailing empty message
effectiveLength(queryStream) ==
    LET n == Len(queryStream)
    IN  IF n > 0 /\ Len0(queryStream[n]) = 0 THEN n - 1 ELSE n

\* C32: for a stub with a non-empty stream and a stream request whose
\* effective length differs from the length of the stub's stream, the stub
\* does not match and its stream rank is 0
C32_LengthMismatchNoMatch ==
    (res.op = "FindByQueryV2" /\ res.query.ID = <<>>) =>
        \A i \in DOMAIN itemsByID :
            LET stub == itemsByID[i]
            IN  (/\ Len(stub.Stream) > 0
                 /\ effectiveLength(res.query.Input) # Len(stub.Stream))
                => /\ matchStreamElements(res.query.Input, stub.Stream) = "false"
                   /\ rankStreamElements(res.query.Input, stub.Stream) = 0

----------------------------------------------------------------------------
(* More claims about selection, under SpecSearch *)

\* C33: if the service and the method of a payload query resolve and at
\* least one candidate satisfies all of its header and input predicates,
\* FindByQuery returns a non-empty found, whatever the priority and the rank
\* of that candidate
C33_MatchingIsFound ==
    (PayloadQueryDone /\ Matching(res.query) # {}) => res.found # <<>>

----------------------------------------------------------------------------
(* More claims about bidirectional streaming, under SpecBidi *)

\* a client-stream stub with a one-element stream
OneElement(stub) == Len(stub.Stream) = 1

\* the stubs of the handle whose one stream element matches the message of
\* the last Next
Answering ==
    {bidi.allStubs[n] : n \in
        {j \in DOMAIN bidi.allStubs :
            /\ OneElement(bidi.allStubs[j])
            /\ matchInputData(bidi.allStubs[j].Stream[1], bidi.last[1])}}

\* C34: on a handle whose stubs are client-stream stubs with one-element
\* streams, each message is answered by a stub whose stream element matches
\* it, whatever the position of the message in the conversation
C34_OneElementAnswers ==
    (/\ NextHandled
     /\ \A n \in DOMAIN bidi.allStubs : OneElement(bidi.allStubs[n])
     /\ Answering # {})
    => /\ res.found # <<>>
       /\ res.found[1] \in Answering

\* C35: Next never returns a stub whose header predicates are not satisfied
\* by the headers of the bidi query that created the handle
C35_NextHonoursHeaders ==
    (res.op = "Next" /\ res.found # <<>>) =>
        matchHeaders(bidi.headers, res.found[1].Headers)

\* the fields of a BidiResult that Next reads and writes
HandleState(br) ==
    <<br.service, br.method, br.headers, br.allStubs, br.candidateStubs,
      br.messageIndex, br.isFirstCall>>

\* this step is a Next with a nil or an empty message that ended with
\* ErrStubNotFound
RejectedStep ==
    /\ bidi'.calls = bidi.calls + 1
    /\ bidi'.last \in {<<>>, <<EmptyMap>>}
    /\ res'.op = "Next"
    /\ res'.err = "ErrStubNotFound"

\* this step is a Next with a nil message
NilStep ==
    /\ bidi'.calls = bidi.calls + 1
    /\ bidi'.last = <<>>
    /\ res'.op = "Next"

\* a Next with a nil message fails and leaves the handle as it was
NilLeavesHandle ==
    [][NilStep => (res'.err = "ErrStubNotFound" /\ HandleState(bidi') = HandleState(bidi))]_vars

\* C36: a Next call that is rejected for a nil or an empty message leaves the
\* handle unchanged: it consumes no stream position, so the next valid
\* message meets the same index and the same candidates as if the rejected
\* call had not been made
C36_RejectedLeavesHandle ==
    [][RejectedStep => HandleState(bidi') = HandleState(bidi)]_vars

----------------------------------------------------------------------------
(* More claims about usage, under SpecUsage *)

\* this step registers a stub under the id i, which no live stub had
Registers(i) == i \notin DOMAIN itemsByID /\ i \in DOMAIN itemsByID'

\* C37: a stub id that was marked used, then deleted, and is upserted again
\* is reported by Unused() and not by Used() from that upsert on (until a
\* non-internal query returns it as found again): after the step that
\* registers it, every Used() omits it and every Unused() holds it
C37_ReupsertedIsUnused ==
    [][\A i \in Ids : Registers(i) =>
            /\ \A u \in used(St', stubUsed') : i \notin IdsOf(u)
            /\ \A n \in unused(St', stubUsed') : i \in IdsOf(n)]_vars

----------------------------------------------------------------------------
(* SpecLocks: the mutexes.  Goroutines call the facade and Next on two      *)
(* handles at the same time; a call is followed through the lock and unlock *)
(* operations it performs, in the order of the code.  A sync.RWMutex admits *)
(* a reader while no writer holds it or waits for it, lets one writer at a  *)
(* time announce itself, and admits that writer once the readers have left. *)
(* The registry, whose content decides none of these operations, is left    *)
(* out of the steps.                                                        *)

Op(k, m) == [k |-> k, mu |-> m]

\* mu.Lock() ... mu.Unlock() around the operations inner
Locked(m, inner) == <<Op("Lock", m)>> \o inner \o <<Op("Unlock", m)>>

\* mu.RLock() ... mu.RUnlock() around the operations inner
RLocked(m, inner) == <<Op("RLock", m)>> \o inner \o <<Op("RUnlock", m)>>

\* storage.upsert and storage.del
upsertLocks == Locked("storage.mu", <<>>)

\* storage.posByN, storage.findByID, and the iterators of storage.values,
\* storage.findByIDs and yieldSortedValues once they are consumed
readLocks == RLocked("storage.mu", <<>>)

\* storage.findAll consumed by collectStubs: posByPN calls posByN once or
\* twice, and with no error yieldSortedValues follows
findAllLocks ==
    {readLocks, readLocks \o readLocks, readLocks \o readLocks \o readLocks}

\* searcher.mark and searcher.markV2: nothing for an internal query
markLocks == {<<>>, Locked("searcher.mu", <<>>)}

\* searcher.find: search (findAll, then mark when a stub was found) or
\* searchByID (posByPN, findByID, mark)
findLocks == {f \o m : f \in findAllLocks, m \in markLocks}

\* searcher.clear with storage.clear called first
clearLocks_storageFirst ==
    Locked("storage.mu", Locked("searcher.mu", <<>>))

\* searcher.clear: storage.clear is called with searcher.mu held
clearLocks == Locked("searcher.mu", Locked("storage.mu", <<>>))

\* searcher.used and searcher.unused: the iterator is consumed with
\* searcher.mu held for reading
usedLocks == RLocked("searcher.mu", readLocks)

\* BidiResult.Next on the handle whose mutex is m: it returns early, or ends
\* without a stub, or calls markV2
nextLocks(m) == {Locked(m, inner) : inner \in markLocks}

\* the calls a goroutine can make
Calls ==
    {upsertLocks, readLocks, clearLocks, usedLocks}
    \cup findAllLocks \cup findLocks
    \cup nextLocks("br1.mu") \cup nextLocks("br2.mu")

\* goroutine g starts a call
Call(g) ==
    /\ lk.prog[g] = <<>>
    /\ \E c \in Calls : lk' = [lk EXCEPT !.prog[g] = c]
    /\ UNCHANGED <<lefts, items, itemsByID, stubUsed, toggles, upserted, writes,
                   usedAtClear, rd, nx, rc, res, bidi>>

\* goroutine g performs the next lock operation of its call
LockStep(g) ==
    /\ lk.prog[g] # <<>>
    /\ LET op == Head(lk.prog[g])
           m == op.mu
           rest == Tail(lk.prog[g])
       IN  \/ /\ op.k = "Lock"
              /\ lk.writer[m] = 0
              /\ lk' = [lk EXCEPT !.writer[m] = g,
                                  !.prog[g] = <<Op("Await", m)>> \o rest]
           \/ /\ op.k = "Await"
              /\ lk.readers[m] = {}
              /\ lk' = [lk EXCEPT !.prog[g] = rest]
           \/ /\ op.k = "Unlock"
              /\ lk' = [lk EXCEPT !.writer[m] = 0, !.prog[g] = rest]
           \/ /\ op.k = "RLock"
              /\ lk.writer[m] = 0
              /\ lk' = [lk EXCEPT !.readers[m] = @ \cup {g}, !.prog[g] = rest]
           \/ /\ op.k = "RUnlock"
              /\ lk' = [lk EXCEPT !.readers[m] = @ \ {g}, !.prog[g] = rest]
    /\ UNCHANGED <<lefts, items, itemsByID, stubUsed, toggles, upserted, writes,
                   usedAtClear, rd, nx, rc, res, bidi>>

InitLocks == NewBudgerigar({})

NextLocks == \E g \in Goroutines : Call(g) \/ LockStep(g)

\* the runtime wakes every goroutine that waits for a mutex: a lock
\* operation that can be performed again and again is performed
SpecLocks ==
    InitLocks /\ [][NextLocks]_vars /\ \A g \in Goroutines : SF_vars(LockStep(g))

\* goroutine g is inside a call
InCall(g) == lk.prog[g] # <<>>

\* goroutine g waits for the mutex m, as a reader or as a writer
Waits(g, m) ==
    /\ InCall(g)
    /\ Head(lk.prog[g]).mu = m
    /\ \/ Head(lk.prog[g]).k \in {"Lock", "RLock"} /\ lk.writer[m] # 0
       \/ Head(lk.prog[g]).k = "Await" /\ lk.readers[m] # {}

\* C38: under any interleaving of concurrent facade operations and Next
\* calls every call eventually returns: there is no deadlock among the
\* index lock, the usage-tracker lock and the handle mutexes
C38_EveryCallReturns ==
    \A g \in Goroutines : InCall(g) ~> ~InCall(g)

\* C38 witness: the three kinds of mutex are contended at once: a goroutine
\* inside Clear holds searcher.mu and waits for the readers of storage.mu to
\* leave, while another, inside Next with the mutex of its handle held,
\* waits for searcher.mu
C38_Witness ==
    \E g, h \in Goroutines :
        /\ g # h
        /\ lk.writer["searcher.mu"] = g
        /\ Waits(g, "storage.mu")
        /\ lk.writer["br1.mu"] = h
        /\ Waits(h, "searcher.mu")

----------------------------------------------------------------------------
(* More claims about FindBy while writes go on, under SpecConc *)

\* the stubs held by the buckets that (left, right) resolves to in the
\* storage st
BucketStubs(st, left, right) ==
    LET r == posByPN(st, left, right)
    IN  IF r[1] # "" THEN {}
        ELSE {st.items[r[2][e[1]]][e[2]] : e \in collected(st, r[2])}

\* C39: FindBy never returns a success with an empty list, also when it runs
\* while DeleteByID or Clear are called: a FindBy without error returns a
\* non-empty list of stubs that were all in the queried buckets at one
\* single moment of the call
C39_FindByNeverEmpty ==
    (FindByReturned /\ res.err = "") =>
        /\ res.stubs # <<>>
        /\ \E st \in rd.seen : Range(res.stubs) \subseteq BucketStubs(st, rd.left, rd.right)

----------------------------------------------------------------------------
(* SpecSnapshot: a handle and later writes.  The registry and the handles   *)
(* hold *Stub pointers: storage.upsert stores the pointers it is given and  *)
(* findBidi copies the pointers of the bucket into allStubs.  Here every    *)
(* stub carries, in the field ptr, the address of the Stub object it is     *)
(* read through.  After one PutMany and the creation of a handle, the       *)
(* caller upserts new Stub objects, deletes, or, as TestBudgerigar_UnusedV2 *)
(* does, sets fields of a Stub it registered and passes the same pointer to *)
(* UpdateMany.                                                              *)

\* the stub read through the pointer a
At(a, stub) == [f \in (DOMAIN stub) \cup {"ptr"} |-> IF f = "ptr" THEN a ELSE stub[f]]

SnapshotStreams == {<<ItemA>>, <<ItemB>>, <<ItemA, ItemB>>}

SnapshotStubs(i) ==
    {MkStreamStub(i, "Greeter", "SayHello", 1, NoInput, stream, FALSE) :
        stream \in SnapshotStreams}

SnapshotQuery == MkQueryBidi(<<>>, "Greeter", "SayHello", EmptyMap, FALSE)

InitSnapshot ==
    \E n \in 1 .. MaxCandidates :
        \E stubs \in [1 .. n -> UNION {SnapshotStubs(i) : i \in 1 .. MaxCandidates}] :
            LET vals == [k \in 1 .. n |-> At(k, stubs[k])]
            IN  /\ \A k \in 1 .. n : vals[k].ID = k
                /\ lefts = upsert(newStorage, vals).lefts
                /\ items = upsert(newStorage, vals).items
                /\ itemsByID = upsert(newStorage, vals).itemsByID
                /\ stubUsed = {}
                /\ toggles = {}
                /\ upserted = 1 .. n
                /\ writes = 1
                /\ usedAtClear = {}
                /\ lk = NoLocks
                /\ rd = NoRead
                /\ nx = NoCalls
                /\ rc = NoCache
                /\ res = Res("PutMany", NoQuery, "", <<>>, <<>>, vals, KeysOf(vals), 0)
                /\ bidi = NoHandle

\* the address of a Stub object the caller allocates now
NewPtr == MaxCandidates + writes

\* what a holder of the pointer of stub reads once the object at a holds c
Through(a, c, stub) == IF stub.ptr = a THEN c ELSE stub

\* the storage once the object at a holds c
StorageThrough(a, c, st) ==
    [lefts |-> st.lefts,
     items |-> [p \in DOMAIN st.items |->
                  [k \in DOMAIN st.items[p] |-> Through(a, c, st.items[p][k])]],
     itemsByID |-> [k \in DOMAIN st.itemsByID |-> Through(a, c, st.itemsByID[k])]]

\* the handle once the object at a holds c
HandleThrough(a, c, br) ==
    [br EXCEPT !.allStubs = [n \in DOMAIN @ |-> Through(a, c, @[n])],
               !.candidateStubs = [n \in DOMAIN @ |-> Through(a, c, @[n])]]

\* UpdateMany of a new Stub object that carries the id i and the stream
UpdateWithNew(i, stream) ==
    /\ i \in DOMAIN itemsByID
    /\ UpdateMany(<<At(NewPtr, [itemsByID[i] EXCEPT !.Stream = stream])>>)

\* the caller sets the Stream of the Stub object it registered under the id
\* i and calls UpdateMany with the same pointer
UpdateInPlace(i, stream) ==
    /\ writes < MaxWrites
    /\ i \in DOMAIN itemsByID
    /\ itemsByID[i].Stream # stream
    /\ LET a == itemsByID[i].ptr
           c == [itemsByID[i] EXCEPT !.Stream = stream]
       IN  /\ SetStorage(upsert(StorageThrough(a, c, St), <<c>>))
           /\ bidi' = HandleThrough(a, c, bidi)
           /\ upserted' = upserted \cup {i}
           /\ res' = Res("UpdateMany", NoQuery, "", <<>>, <<>>, <<>>, <<i>>, 0)
    /\ writes' = writes + 1
    /\ UNCHANGED <<stubUsed, toggles, usedAtClear, lk, rd, nx, rc>>

NextSnapshot ==
    \/ ~bidi.made /\ FindByQueryBidi(SnapshotQuery)
    \/ bidi.calls < MaxNext /\ \E m \in {<<MsgA>>, <<MsgB>>} : BidiNext(m)
    \/ bidi.made /\ Write(\E i \in Ids, stream \in SnapshotStreams : UpdateWithNew(i, stream))
    \/ bidi.made /\ Write(\E ids \in Singles(Ids) : DeleteByID(ids))
    \/ bidi.made /\ \E i \in Ids, stream \in SnapshotStreams : UpdateInPlace(i, stream)

SpecSnapshot == InitSnapshot /\ [][NextSnapshot]_vars

\* this step is a write made after the handle was created
LaterWrite == bidi.made /\ writes' = writes + 1

\* this step changes a Stub object that stays registered
ChangesObject ==
    \E i \in (DOMAIN itemsByID) \cap (DOMAIN itemsByID') :
        itemsByID'[i].ptr = itemsByID[i].ptr /\ itemsByID'[i] # itemsByID[i]

\* writes that pass new Stub objects, and deletions, leave the handle alone
NewObjectsLeaveHandle ==
    [][(LaterWrite /\ ~ChangesObject) => HandleState(bidi') = HandleState(bidi)]_vars

\* C40: a handle works on the snapshot of candidates taken when it was
\* created: stubs that are upserted, replaced or deleted afterwards change
\* neither the stubs its Next calls can return nor the predicates those
\* stubs are matched with
C40_WritesLeaveHandle ==
    [][LaterWrite => HandleState(bidi') = HandleState(bidi)]_vars

====
